---- MODULE Spec2Model ----
(***************************************************************************)
(* HelloJudge3 judger: the local judging pipeline.                         *)
(*                                                                         *)
(*   Spec        one submission through task/local/executor.rs `handle`    *)
(*               (compile, result tree, schedule loop, aggregation,        *)
(*               finalize), with the dependency graph of dependency.rs     *)
(*   SpecSched   two runs of the dependency scheduler on the same input    *)
(*   SpecSandbox one testcase through execute_in_docker, watch_container   *)
(*               and the verdict of handle_traditional                     *)
(*   SpecSync    sync_problem_files run twice on one problem directory     *)
(***************************************************************************)
EXTENDS Integers, Sequences, FiniteSets, TLC

(***************************************************************************)
(* Bounds of the model.                                                    *)
(***************************************************************************)
\* testcases per subtask: 0..MaxCases
MaxCases == 2
\* total number of edges in subtask_dependency.json
MaxEdges == 2
\* full_score of every testcase
FullScore == 1
\* the non-zero configured subtask score
MaxSubtaskScore == 2
\* ProblemSubtask.memory_limit (MiB) and time_limit (ms) of every subtask
MemoryLimit == 1
TimeLimit == 1
\* microseconds a descheduled watcher may sleep in one usleep
LongSleep == 250000
\* the judger's clock, in half seconds, stops advancing here
MaxClock == 5
\* broker messages delivered to the worker at the same time
NTasks == 4
\* comparisons one SpecialJudgeComparator makes in a row
MaxCompares == 2
\* JudgerConfig.max_tasks_sametime and max_remote_task_sametime
MaxTasksSametime == 2
MaxRemoteTaskSametime == 1
\* the largest full_score of a testcase judged by a special judge
MaxSpjFullScore == 100
\* bytes in a user output or an answer handed to the line comparator
MaxLineBytes == 3
\* calls of DependencyGraph::next in a row without a report in between
MaxPeeks == 2
\* the largest time_limit of a subtask, in milliseconds (SpecTime)
MaxTimeLimit == 40
\* the largest length of luogu_delay_sequence (SpecRemote)
MaxDelays == 3

(***************************************************************************)
(* Program constants.                                                      *)
(***************************************************************************)
\* extra_config.time_scale.unwrap_or(1.02), in thousandths
DefaultTimeScale == 1020
\* usleep(100) in the watcher's loop
SampleInterval == 100
\* the exit code of a container killed by kill_container (128 + SIGKILL)
KilledExitCode == 137

\* ProblemInfo.subtasks, in the order the server lists them (distinct names:
\* JudgeResult is a map keyed by subtask name)
SubtaskNames == <<"A", "B">>
NSub == Len(SubtaskNames)
Idx == 1..NSub
\* a subtask name the problem does not define, as a prior judge_result may hold
StaleName == "old"
\* ProblemSubtask.method
Methods == {"min", "sum"}
\* ProblemSubtask.score
SubtaskScores == {0, MaxSubtaskScore}

VARIABLES
    \* ---- one submission (Spec) ----
    pc,            \* position of `handle`
    problem,       \* ProblemInfo.subtasks: idx -> [method, score, memory_limit, time_limit, testcases]
    depJson,       \* subtask_dependency.json: idx -> Seq(idx) (u -> the names u depends on)
    submit_answer, \* ExtraJudgeConfig.submit_answer
    prior,         \* SubmissionInfo.judge_result as received
    judge_result,  \* the working result tree
    published,     \* the last update_status call: [tree, extra_status]
    dg,            \* dep_state_machine
    cur,           \* index of the subtask being judged (0: none)
    ti,            \* index of the next testcase of cur
    will_skip,     \* the per-subtask will_skip flag
    issued,        \* history: subtask indexes returned by next(), in order
    executed,      \* history: <<idx, i>> of every testcase run or compared
    oomKilled,     \* history: <<idx, i>> of every testcase whose container was OOM-killed
    \* ---- scheduler determinism (SpecSched) ----
    sdeps, sdecide, g1, g2, seq1, seq2,
    \* ---- one sandboxed testcase (SpecSandbox) ----
    sb,
    \* ---- testdata synchronizer (SpecSync) ----
    sy,
    \* ---- concurrent tasks behind the gate (SpecTasks) ----
    ct,
    \* ---- one call of execute_in_docker and its caller (SpecDocker) ----
    dk,
    \* ---- one testcase verdict (SpecVerdict) ----
    vd,
    \* ---- the special judge's scratch directory (SpecSpj) ----
    sj,
    \* ---- two runs of a submission, one with a failing reporter (SpecReport) ----
    rp,
    \* ---- one broker message through local_judge_task_handler (SpecHandler) ----
    hd,
    \* ---- one special-judge score scaled (SpecScale) ----
    sc,
    \* ---- one call of the line comparator (SpecLines) ----
    lc,
    \* ---- the dependency graph driven through its interface (SpecGraph) ----
    gr,
    \* ---- one scaled time limit (SpecTime) ----
    tm,
    \* ---- one remote submission tracked on Luogu (SpecRemote) ----
    lg,
    \* ---- two tasks syncing one problem directory (SpecMirror) ----
    cs

orchVars == <<pc, problem, depJson, submit_answer, prior, judge_result, published,
              dg, cur, ti, will_skip, issued, executed, oomKilled>>
schedVars == <<sdeps, sdecide, g1, g2, seq1, seq2>>
taskVars == <<ct, dk, vd, sj, rp, hd>>
lateVars == <<tm, lg, cs>>
fnVars == <<sc, lc, gr, lateVars>>
earlyVars == <<taskVars, sc, lc, gr>>
extVars == <<taskVars, fnVars>>
vars == <<orchVars, schedVars, sb, sy, extVars>>

\* the variables of the specifications that are not running
TaskIdle == ct = 0 /\ dk = 0 /\ vd = 0 /\ sj = 0 /\ rp = 0 /\ hd = 0
LateIdle == tm = 0 /\ lg = 0 /\ cs = 0
FnIdle == sc = 0 /\ lc = 0 /\ gr = 0 /\ LateIdle
EarlyIdle == TaskIdle /\ sc = 0 /\ lc = 0 /\ gr = 0
ExtIdle == TaskIdle /\ FnIdle

(***************************************************************************)
(* Sequence helpers.                                                       *)
(***************************************************************************)
SeqToSet(s) == {s[i] : i \in 1..Len(s)}

SeqMin(s) == CHOOSE x \in SeqToSet(s) : \A y \in SeqToSet(s) : x <= y

\* s without its first occurrence of x
RECURSIVE RemoveFirst(_, _)
RemoveFirst(s, x) ==
    IF s = <<>> THEN <<>>
    ELSE IF Head(s) = x THEN Tail(s)
    ELSE <<Head(s)>> \o RemoveFirst(Tail(s), x)

RECURSIVE SumSeq(_)
SumSeq(s) == IF s = <<>> THEN 0 ELSE Head(s) + SumSeq(Tail(s))

\* all sequences over S of length at most n
SeqsUpTo(S, n) == UNION {[1..k -> S] : k \in 0..n}

\* the orders in which a HashMap with keys 1..n may be iterated
Perms(n) == {p \in [1..n -> 1..n] : \A i, j \in 1..n : p[i] = p[j] => i = j}

(***************************************************************************)
(* Dependency graph (task/local/dependency.rs).                            *)
(* An edge u -> v means u depends on v.                                    *)
(***************************************************************************)
\* BinaryHeap<Reverse<usize>>: kept as the sequence of pushed elements;
\* peek/pop take the smallest.
HeapPush(h, x) == Append(h, x)
\* variant: the element pushed first, not the smallest
HeapPeekFifo(h) == Head(h)
HeapPeek(h) == SeqMin(h)
\* variant: pop leaves the heap as it is
HeapPopKeep(h) == h
HeapPop(h) == RemoveFirst(h, HeapPeek(h))

\* rev_graph[v]: the u with an edge u -> v, pushed while iterating the parsed
\* HashMap in the order `order`
RECURSIVE RevEdges(_, _, _, _)
RevEdges(v, deps, order, k) ==
    IF k > Len(order) THEN <<>>
    ELSE LET u == order[k]
             hits == SelectSeq(deps[u], LAMBDA x : x = v)
         IN  [i \in 1..Len(hits) |-> u] \o RevEdges(v, deps, order, k + 1)

\* variant: every index is pushed, whatever its outdeg
InitialHeapAll(outdeg, i) == [k \in 1..(Len(outdeg) - i + 1) |-> i + k - 1]

\* the indexes with outdeg 0, pushed in ascending index order
RECURSIVE InitialHeap(_, _)
InitialHeap(outdeg, i) ==
    IF i > Len(outdeg) THEN <<>>
    ELSE (IF outdeg[i] = 0 THEN <<i>> ELSE <<>>) \o InitialHeap(outdeg, i + 1)

\* DependencyGraph::new for names.len() = Len(deps); deps[u] lists what the
\* json gives for the u-th name (empty when the name is no key of it)
DGNew(deps, order) ==
    LET n == Len(deps)
        outdeg == [u \in 1..n |-> Len(deps[u])]
    IN  [graph     |-> deps,
         rev_graph |-> [v \in 1..n |-> RevEdges(v, deps, order, 1)],
         outdeg    |-> outdeg,
         heap      |-> InitialHeap(outdeg, 1),
         dropped   |-> [i \in 1..n |-> FALSE]]

\* variant: the node with the largest index in the heap
DGNextLargest(g) ==
    IF g.heap = <<>> THEN 0
    ELSE CHOOSE x \in SeqToSet(g.heap) : \A y \in SeqToSet(g.heap) : x >= y

\* DependencyGraph::next: index of the node at the top of the heap, 0 for None
DGNext(g) == IF g.heap = <<>> THEN 0 ELSE HeapPeek(g.heap)

\* variant: a dependent is pushed at every decrement, not only at zero
RECURSIVE ReleaseDependentsEager(_, _)
ReleaseDependentsEager(g, froms) ==
    IF froms = <<>> THEN g
    ELSE LET f == Head(froms)
             g1_ == [g EXCEPT !.outdeg[f] = g.outdeg[f] - 1,
                              !.heap = HeapPush(g.heap, f)]
         IN  ReleaseDependentsEager(g1_, Tail(froms))

\* the loop of report over rev_graph[idx]
RECURSIVE ReleaseDependents(_, _)
ReleaseDependents(g, froms) ==
    IF froms = <<>> THEN g
    ELSE LET f == Head(froms)
             r == g.outdeg[f] - 1
             g1_ == [g EXCEPT !.outdeg[f] = r,
                              !.heap = IF r = 0 THEN HeapPush(g.heap, f) ELSE g.heap]
         IN  ReleaseDependents(g1_, Tail(froms))

\* variant: dependents are released whatever `ok` is
DGReportIgnoringOk(g, ok) ==
    IF g.heap = <<>> THEN g
    ELSE LET idx == HeapPeek(g.heap)
             popped == [g EXCEPT !.heap = HeapPop(g.heap)]
             released == ReleaseDependents(popped, g.rev_graph[idx])
         IN  IF ok THEN [released EXCEPT !.dropped[idx] = TRUE] ELSE released

\* DependencyGraph::report
DGReport(g, ok) ==
    IF g.heap = <<>> THEN g
    ELSE LET idx == HeapPeek(g.heap)
             popped == [g EXCEPT !.heap = HeapPop(g.heap)]
         IN  IF ok
             THEN [ReleaseDependents(popped, g.rev_graph[idx]) EXCEPT !.dropped[idx] = TRUE]
             ELSE popped

\* variant: every node that is not dropped is listed
RECURSIVE SkippedFromUndropped(_, _)
SkippedFromUndropped(g, i) ==
    IF i > Len(g.outdeg) THEN <<>>
    ELSE (IF ~g.dropped[i]
          THEN <<[idx |-> i,
                  reason |-> SelectSeq(g.graph[i], LAMBDA v : ~g.dropped[v])]>>
          ELSE <<>>) \o SkippedFromUndropped(g, i + 1)

\* DependencyGraph::get_skipped_subtasks: ascending indexes with outdeg /= 0,
\* each with the dependencies not dropped (the names in its reason)
RECURSIVE SkippedFrom(_, _)
SkippedFrom(g, i) ==
    IF i > Len(g.outdeg) THEN <<>>
    ELSE (IF g.outdeg[i] /= 0
          THEN <<[idx |-> i,
                  reason |-> SelectSeq(g.graph[i], LAMBDA v : ~g.dropped[v])]>>
          ELSE <<>>) \o SkippedFrom(g, i + 1)
DGSkipped(g) == SkippedFrom(g, 1)

\* every dependency mapping over n names with at most MaxEdges edges in total
DepMappings(n) ==
    {d \in [1..n -> SeqsUpTo(1..n, MaxEdges)] :
        SumSeq([u \in 1..n |-> Len(d[u])]) <= MaxEdges}

(***************************************************************************)
(* Result tree (task/local/model.rs).                                      *)
(***************************************************************************)
EmptyTree == <<>>

TreeInsert(t, k, v) == [x \in (DOMAIN t) \cup {k} |-> IF x = k THEN v ELSE t[x]]

\* a judge_result left over from an earlier judging of the submission: a
\* subtask the problem no longer has, and stale content for subtask A
StaleTree ==
    [x \in {StaleName, SubtaskNames[1]} |->
        [score |-> 0, status |-> "unaccepted",
         testcases |-> <<[full_score |-> FullScore, score |-> 0, status |-> "wrong_answer"],
                         [full_score |-> FullScore, score |-> 0, status |-> "wrong_answer"],
                         [full_score |-> FullScore, score |-> 0, status |-> "wrong_answer"]>>]]

PriorTrees == {EmptyTree, StaleTree}

\* the SubmissionSubtaskResult inserted for subtask st by `handle`
FreshSubtaskResult(st) ==
    [score |-> 0, status |-> "waiting",
     testcases |-> [i \in 1..Len(st.testcases) |->
                      [full_score |-> st.testcases[i].full_score,
                       score |-> 0, status |-> "waiting"]]]

\* problem_data.subtasks.iter().for_each(|v| judge_result.insert(..))
RECURSIVE InsertFresh(_, _, _)
InsertFresh(t, subtasks, i) ==
    IF i > NSub THEN t
    ELSE InsertFresh(TreeInsert(t, SubtaskNames[i], FreshSubtaskResult(subtasks[i])),
                     subtasks, i + 1)

\* let mut judge_result = sub_info.judge_result.clone(); then the inserts
InitialTree(priorTree, subtasks) == InsertFresh(priorTree, subtasks, 1)

\* every ProblemSubtask the model draws
SubtaskConfigs ==
    {[method |-> m, score |-> s, memory_limit |-> MemoryLimit, time_limit |-> TimeLimit,
      testcases |-> [i \in 1..n |-> [full_score |-> FullScore]]] :
        m \in Methods, s \in SubtaskScores, n \in 0..MaxCases}

\* ---- IEEE 754 binary64 arithmetic on non-negative values ----
\* A double is [m, e]: m its 53 significand bits, most significant first
\* (the first is 1), standing for the integer m times 2^e; zero is F64Zero.
F64Precision == 53
F64Zero == [m |-> <<>>, e |-> 0]

\* the binary digits of a natural number, none for 0
RECURSIVE BitsOfInt(_)
BitsOfInt(n) == IF n = 0 THEN <<>> ELSE Append(BitsOfInt(n \div 2), n % 2)

RECURSIVE IntOfBits(_)
IntOfBits(b) ==
    IF b = <<>> THEN 0 ELSE 2 * IntOfBits(SubSeq(b, 1, Len(b) - 1)) + b[Len(b)]

\* b + 1; one digit longer when b is all ones
RECURSIVE BitsInc(_)
BitsInc(b) ==
    IF b = <<>> THEN <<1>>
    ELSE IF b[Len(b)] = 0 THEN [b EXCEPT ![Len(b)] = 1]
    ELSE Append(BitsInc(SubSeq(b, 1, Len(b) - 1)), 0)

\* b * n for a natural n >= 1, digit by digit from the right
RECURSIVE BitsTimes(_, _, _)
BitsTimes(b, n, carry) ==
    IF carry = 0 /\ b = <<>> THEN <<>>
    ELSE LET digit == IF b = <<>> THEN 0 ELSE b[Len(b)]
             front == IF b = <<>> THEN b ELSE SubSeq(b, 1, Len(b) - 1)
             v == digit * n + carry
         IN  Append(BitsTimes(front, n, v \div 2), v % 2)

\* round to nearest, ties to even: the double nearest to the value
\* b * 2^e (+ a non-zero amount below the last digit of b when `sticky`)
F64Round(b, sticky, e) ==
    IF Len(b) <= F64Precision
    THEN [m |-> b \o [i \in 1..(F64Precision - Len(b)) |-> 0],
          e |-> e - (F64Precision - Len(b))]
    ELSE LET keep == SubSeq(b, 1, F64Precision)
             guard == b[F64Precision + 1]
             rest == sticky \/ \E i \in (F64Precision + 2)..Len(b) : b[i] = 1
             up == guard = 1 /\ (rest \/ keep[F64Precision] = 1)
             m1 == IF up THEN BitsInc(keep) ELSE keep
             e1 == e + (Len(b) - F64Precision)
         IN  IF Len(m1) > F64Precision
             THEN [m |-> SubSeq(m1, 1, F64Precision), e |-> e1 + 1]
             ELSE [m |-> m1, e |-> e1]

\* the digits of rem / d after the binary point appended to acc, until one
\* digit more than the precision is known; k counts the digits produced
RECURSIVE QuotientBits(_, _, _, _)
QuotientBits(rem, d, acc, k) ==
    IF rem = 0 \/ Len(acc) > F64Precision
    THEN [bits |-> acc, sticky |-> rem /= 0, e |-> -k]
    ELSE LET bit == IF 2 * rem >= d THEN 1 ELSE 0
         IN  QuotientBits(2 * rem - bit * d, d,
                          IF acc = <<>> /\ bit = 0 THEN acc ELSE Append(acc, bit),
                          k + 1)

\* n as f64 / d as f64, for naturals n and d >= 1 (both exact as doubles)
F64Div(n, d) ==
    IF n = 0 THEN F64Zero
    ELSE LET q == QuotientBits(n % d, d, BitsOfInt(n \div d), 0)
         IN  F64Round(q.bits, q.sticky, q.e)

\* x * (n as f64) for a double x and a natural n (exact as a double)
F64MulInt(x, n) ==
    IF x = F64Zero \/ n = 0 THEN F64Zero
    ELSE F64Round(BitsTimes(x.m, n, 0), FALSE, x.e)

\* x.floor() as i64 for a double x >= 0 below 2^53
F64Floor(x) ==
    IF x = F64Zero \/ F64Precision + x.e <= 0 THEN 0
    ELSE IntOfBits(SubSeq(x.m, 1, F64Precision + x.e))

(***************************************************************************)
(* Sandbox result accounting (core/runner/docker.rs) and the testcase      *)
(* verdict (task/local/traditional.rs, task/local/submit_answer.rs).       *)
(***************************************************************************)
\* variant: the OOM flag is not consulted
ExecMemoryCostNoOomFlag(is_oom_killed, memory_result, memory_limit) ==
    IF memory_result > memory_limit THEN 0 ELSE memory_result

\* variant: the watcher's value is returned whatever it is
ExecMemoryCostUnchecked(is_oom_killed, memory_result, memory_limit) ==
    IF is_oom_killed THEN memory_limit ELSE memory_result

\* memory_cost of ExecuteResult: the tail of execute_in_docker
ExecMemoryCost(is_oom_killed, memory_result, memory_limit) ==
    IF is_oom_killed THEN memory_limit
    ELSE IF memory_result > memory_limit THEN 0
    ELSE memory_result

\* the values of time_scale looked at, in thousandths: t stands for the
\* double nearest to t / 1000
TimeScaleValues == {1000, DefaultTimeScale, 1150, 1500}

\* (time_limit as f64 * time_scale) as i64 for every time limit and time
\* scale looked at: the product is rounded to a double, the cast truncates
ScaledTimes ==
    [time_limit \in 0..MaxTimeLimit |->
        [time_scale \in TimeScaleValues |->
            F64Floor(F64MulInt(F64Div(time_scale, 1000), time_limit))]]

\* let scaled_time = (subtask.time_limit as f64 * time_scale) as i64;
ScaledTime(time_limit, time_scale) == ScaledTimes[time_limit][time_scale]

\* what a Comparator may return for a testcase of full score f
CompareOutcomes(f) ==
    {[ok |-> TRUE, score |-> s] : s \in 0..(f + 1)} \cup {[ok |-> FALSE, score |-> 0]}

\* variant: the time limit is looked at before the memory limit
HandleTraditionalTimeFirst(tc, subtask, run_result, out_too_large, cmp, skip) ==
    LET scaled_time == ScaledTime(subtask.time_limit, DefaultTimeScale)
        status ==
            IF run_result.time_cost >= scaled_time * 1000 THEN "time_limit_exceed"
            ELSE IF ((run_result.memory_cost \div 1024) \div 1024) >= subtask.memory_limit
            THEN "memory_limit_exceed"
            ELSE IF run_result.exit_code /= 0 THEN "runtime_error"
            ELSE "accepted"
    IN  [tc |-> [tc EXCEPT !.status = status,
                           !.score = IF status = "accepted" THEN tc.full_score ELSE 0],
         compared |-> status = "accepted",
         will_skip |-> IF status /= "accepted" /\ subtask.method = "min"
                       THEN TRUE ELSE skip]

\* handle_traditional from the ExecuteResult on: the new testcase result,
\* whether the comparator was called, and the new will_skip.
\* `out_too_large`: the output file is longer than output_file_size_limit;
\* `cmp`: what the comparator returns if it is called.
HandleTraditional(tc, subtask, run_result, out_too_large, cmp, skip) ==
    LET scaled_time == ScaledTime(subtask.time_limit, DefaultTimeScale)
        \* `returned`: the function returns from inside the branch
        outcome ==
            IF ((run_result.memory_cost \div 1024) \div 1024) >= subtask.memory_limit
            THEN [tc |-> [tc EXCEPT !.status = "memory_limit_exceed"],
                  compared |-> FALSE, returned |-> FALSE]
            ELSE IF run_result.time_cost >= scaled_time * 1000
            THEN [tc |-> [tc EXCEPT !.status = "time_limit_exceed"],
                  compared |-> FALSE, returned |-> FALSE]
            ELSE IF run_result.exit_code /= 0
            THEN [tc |-> [tc EXCEPT !.status = "runtime_error"],
                  compared |-> FALSE, returned |-> FALSE]
            ELSE IF out_too_large
            THEN [tc |-> [tc EXCEPT !.status = "output_size_limit_exceed"],
                  compared |-> FALSE, returned |-> TRUE]
            ELSE LET score == IF cmp.ok THEN cmp.score ELSE 0
                 IN  [tc |-> [tc EXCEPT !.score = score,
                                        !.status = IF score < tc.full_score THEN "wrong_answer"
                                                   ELSE IF score = tc.full_score THEN "accepted"
                                                   ELSE "unaccepted"],
                      compared |-> TRUE, returned |-> FALSE]
    IN  [tc |-> outcome.tc,
         compared |-> outcome.compared,
         will_skip |-> IF ~outcome.returned /\ outcome.tc.status /= "accepted"
                          /\ subtask.method = "min"
                       THEN TRUE ELSE skip]

\* handle_submit_answer; `present`: the output name is a key of the answer map
HandleSubmitAnswer(tc, present, cmp) ==
    IF present
    THEN IF cmp.ok
         THEN IF cmp.score < tc.full_score
              THEN [tc EXCEPT !.score = cmp.score, !.status = "wrong_answer"]
              ELSE IF cmp.score = tc.full_score
              THEN [tc EXCEPT !.score = cmp.score, !.status = "accepted"]
              ELSE [tc EXCEPT !.score = 0, !.status = "judge_failed"]
         ELSE [tc EXCEPT !.score = 0, !.status = "judge_failed"]
    ELSE [tc EXCEPT !.score = 0, !.status = "wrong_answer"]

\* variant: min gives the full score as soon as one testcase is accepted
AggregateScoreAnyAccepted(subtask, res) ==
    IF subtask.method = "min"
    THEN IF \E i \in 1..Len(res.testcases) : res.testcases[i].status = "accepted"
         THEN subtask.score ELSE 0
    ELSE SumSeq([i \in 1..Len(res.testcases) |-> res.testcases[i].score])

\* the aggregated score of a subtask whose testcases are done
AggregateScore(subtask, res) ==
    IF subtask.method = "min"
    THEN IF \A i \in 1..Len(res.testcases) : res.testcases[i].status = "accepted"
         THEN subtask.score ELSE 0
    ELSE IF subtask.method = "sum"
    THEN SumSeq([i \in 1..Len(res.testcases) |-> res.testcases[i].score])
    ELSE res.score

\* variant: a score above the configured one is accepted too
SubtaskStatusAtLeast(subtask, score) ==
    IF score >= subtask.score THEN "accepted" ELSE "unaccepted"

\* "accepted" iff the aggregated score is the configured one
SubtaskStatus(subtask, score) == IF score = subtask.score THEN "accepted" ELSE "unaccepted"

\* variant: only the subtask entries are marked, their testcases are left
RECURSIVE MarkSkippedSubtaskOnly(_, _)
MarkSkippedSubtaskOnly(t, skipped) ==
    IF skipped = <<>> THEN t
    ELSE LET name == SubtaskNames[Head(skipped).idx]
         IN  MarkSkippedSubtaskOnly([t EXCEPT ![name].status = "skipped"],
                                    Tail(skipped))

\* the skipped subtasks marked in the result tree, in the order of the list
RECURSIVE MarkSkipped(_, _)
MarkSkipped(t, skipped) ==
    IF skipped = <<>> THEN t
    ELSE LET name == SubtaskNames[Head(skipped).idx]
             old == t[name]
             new == [old EXCEPT !.status = "skipped",
                                !.testcases = [i \in 1..Len(old.testcases) |->
                                    [old.testcases[i] EXCEPT !.status = "skipped"]]]
         IN  MarkSkipped([t EXCEPT ![name] = new], Tail(skipped))

(***************************************************************************)
(* One submission: task/local/executor.rs `handle` and its caller          *)
(* local_judge_task_handler.                                               *)
(***************************************************************************)
Publish(tree, extra) == [tree |-> tree, extra_status |-> extra]

\* what execute_in_docker may return for a testcase of subtask st: the
\* container's OOM flag, the watcher's memory and time, the exit code
RunResults(st) ==
    LET limit == st.memory_limit * 1024 * 1024
        scaled_time == ScaledTime(st.time_limit, DefaultTimeScale)
    IN  {[oom |-> o,
          memory_cost |-> ExecMemoryCost(o, m, limit),
          time_cost |-> t,
          exit_code |-> e] :
            o \in BOOLEAN, m \in {0, limit, limit + 1},
            t \in {0, scaled_time * 1000}, e \in {0, 1}}

\* whether the comparator is reached for this run
ReachesCompare(st, r) ==
    /\ ((r.memory_cost \div 1024) \div 1024) < st.memory_limit
    /\ r.time_cost < ScaledTime(st.time_limit, DefaultTimeScale) * 1000
    /\ r.exit_code = 0

Init ==
    /\ pc = "start"
    /\ problem \in [Idx -> SubtaskConfigs]
    /\ depJson \in DepMappings(NSub)
    /\ submit_answer \in BOOLEAN
    /\ prior \in PriorTrees
    /\ judge_result = prior
    /\ published = Publish(EmptyTree, "none")
    /\ dg = DGNew([u \in Idx |-> <<>>], [i \in Idx |-> i])
    /\ cur = 0
    /\ ti = 0
    /\ will_skip = FALSE
    /\ issued = <<>>
    /\ executed = {}
    /\ oomKilled = {}
    /\ sdeps = 0 /\ sdecide = 0 /\ g1 = 0 /\ g2 = 0 /\ seq1 = 0 /\ seq2 = 0
    /\ sb = 0
    /\ sy = 0
    /\ ExtIdle

\* problem data fetched, files synced, comparator prepared, then
\* update_status(&sub_info.judge_result, "Downloading language definition..")
\* and the language definition fetched
Prepare ==
    /\ pc = "start"
    /\ published' = Publish(prior, "")
    /\ pc' = "compile"
    /\ UNCHANGED <<problem, depJson, submit_answer, prior, judge_result, dg, cur, ti,
                   will_skip, issued, executed, oomKilled, schedVars, sb, sy, extVars>>

\* compile_program (traditional) or the answer archive read (submit-answer)
Compile ==
    /\ pc = "compile"
    /\ IF submit_answer
       THEN /\ pc' = "init_tree"
            /\ UNCHANGED published
       ELSE \E exit_code \in {0, 1} :
              IF exit_code /= 0
              THEN /\ published' = Publish(EmptyTree, "compile_error")
                   /\ pc' = "compile_error"
              ELSE /\ published' = Publish(prior, "")
                   /\ pc' = "init_tree"
    /\ UNCHANGED <<problem, depJson, submit_answer, prior, judge_result, dg, cur, ti,
                   will_skip, issued, executed, oomKilled, schedVars, sb, sy, extVars>>

\* the fresh result tree, published once, and the dependency graph built
\* from subtask_dependency.json
InitResultTree ==
    /\ pc = "init_tree"
    /\ judge_result' = InitialTree(prior, problem)
    /\ published' = Publish(judge_result', "")
    /\ \E order \in Perms(NSub) : dg' = DGNew(depJson, order)
    /\ pc' = "loop"
    /\ UNCHANGED <<problem, depJson, submit_answer, prior, cur, ti,
                   will_skip, issued, executed, oomKilled, schedVars, sb, sy, extVars>>

\* while let Some(subtask_name) = dep_state_machine.next()
NextSubtask ==
    /\ pc = "loop"
    /\ LET n == DGNext(dg)
       IN  IF n = 0
           THEN /\ pc' = "finalize"
                /\ UNCHANGED <<cur, ti, will_skip, issued>>
           ELSE /\ pc' = "judging"
                /\ cur' = n
                /\ ti' = 1
                /\ will_skip' = FALSE
                /\ issued' = Append(issued, n)
    /\ UNCHANGED <<problem, depJson, submit_answer, prior, judge_result, published, dg,
                   executed, oomKilled, schedVars, sb, sy, extVars>>

\* one iteration of `for (i, testcase) in subtask.testcases.iter().enumerate()`
JudgeTestcase ==
    /\ pc = "judging"
    /\ ti <= Len(problem[cur].testcases)
    /\ LET name == SubtaskNames[cur]
           st == problem[cur]
           judging == [judge_result EXCEPT ![name].testcases[ti].status = "judging"]
           tc == judging[name].testcases[ti]
       IN  /\ published' = Publish(judging, "")
           /\ IF will_skip
              THEN /\ judge_result' = [judging EXCEPT ![name].testcases[ti] =
                                          [tc EXCEPT !.score = 0, !.status = "skipped"]]
                   /\ UNCHANGED <<will_skip, executed, oomKilled>>
              ELSE IF submit_answer
              THEN \E cmp \in CompareOutcomes(tc.full_score) :
                     /\ judge_result' = [judging EXCEPT ![name].testcases[ti] =
                                            HandleSubmitAnswer(tc, TRUE, cmp)]
                     /\ executed' = executed \cup {<<cur, ti>>}
                     /\ UNCHANGED <<will_skip, oomKilled>>
              ELSE \E r \in RunResults(st) :
                   \E out_too_large \in IF ReachesCompare(st, r) THEN BOOLEAN ELSE {FALSE} :
                   \E cmp \in IF ReachesCompare(st, r) /\ ~out_too_large
                              THEN CompareOutcomes(tc.full_score)
                              ELSE {[ok |-> FALSE, score |-> 0]} :
                     LET h == HandleTraditional(tc, st, r, out_too_large, cmp, will_skip)
                     IN  /\ judge_result' = [judging EXCEPT ![name].testcases[ti] = h.tc]
                         /\ will_skip' = h.will_skip
                         /\ executed' = executed \cup {<<cur, ti>>}
                         /\ oomKilled' = IF r.oom THEN oomKilled \cup {<<cur, ti>>}
                                         ELSE oomKilled
    /\ ti' = ti + 1
    /\ UNCHANGED <<pc, problem, depJson, submit_answer, prior, dg, cur, issued,
                   schedVars, sb, sy, extVars>>

\* after the testcases of a subtask: its score, its status, the report
AggregateSubtask ==
    /\ pc = "judging"
    /\ ti > Len(problem[cur].testcases)
    /\ LET name == SubtaskNames[cur]
           score == AggregateScore(problem[cur], judge_result[name])
       IN  /\ judge_result' = [judge_result EXCEPT
                                  ![name].score = score,
                                  ![name].status = SubtaskStatus(problem[cur], score)]
           /\ dg' = DGReport(dg, score = problem[cur].score)
    /\ pc' = "loop"
    /\ UNCHANGED <<problem, depJson, submit_answer, prior, published, cur, ti,
                   will_skip, issued, executed, oomKilled, schedVars, sb, sy, extVars>>

\* variant: the skipped subtasks are marked but no update is sent
FinalizeWithoutUpdate ==
    /\ pc = "finalize"
    /\ judge_result' = MarkSkipped(judge_result, DGSkipped(dg))
    /\ pc' = "done"
    /\ UNCHANGED <<problem, depJson, submit_answer, prior, published, dg, cur, ti,
                   will_skip, issued, executed, oomKilled, schedVars, sb, sy, extVars>>

\* the skipped subtasks marked and the terminal status update
Finalize ==
    /\ pc = "finalize"
    /\ judge_result' = MarkSkipped(judge_result, DGSkipped(dg))
    /\ published' = Publish(judge_result', "")
    /\ pc' = "done"
    /\ UNCHANGED <<problem, depJson, submit_answer, prior, dg, cur, ti,
                   will_skip, issued, executed, oomKilled, schedVars, sb, sy, extVars>>

\* variant: a compile error also ends as an error of the task
TaskErrorAfterCompileError ==
    /\ pc \in {"start", "compile", "init_tree", "judging", "compile_error"}
    /\ pc = "judging" => ti <= Len(problem[cur].testcases) /\ ~will_skip
    /\ published' = Publish(EmptyTree, "")
    /\ pc' = "failed"
    /\ UNCHANGED <<problem, depJson, submit_answer, prior, judge_result, dg, cur, ti,
                   will_skip, issued, executed, oomKilled, schedVars, sb, sy, extVars>>

\* any `?` of handle returning an error: local_judge_task_handler publishes
\* an empty tree with the error text and returns a task error
TaskError ==
    /\ pc \in {"start", "compile", "init_tree", "judging"}
    /\ pc = "judging" => ti <= Len(problem[cur].testcases) /\ ~will_skip
    /\ published' = Publish(EmptyTree, "")
    /\ pc' = "failed"
    /\ UNCHANGED <<problem, depJson, submit_answer, prior, judge_result, dg, cur, ti,
                   will_skip, issued, executed, oomKilled, schedVars, sb, sy, extVars>>

Next ==
    \/ Prepare
    \/ Compile
    \/ InitResultTree
    \/ NextSubtask
    \/ JudgeTestcase
    \/ AggregateSubtask
    \/ Finalize
    \/ TaskError

Spec == Init /\ [][Next]_vars

(***************************************************************************)
(* Properties of one submission (Spec).                                    *)
(***************************************************************************)
NameSet == SeqToSet(SubtaskNames)
Judged(res) == res.status \in {"accepted", "unaccepted"}
AllTestcases(res, P(_)) == \A i \in 1..Len(res.testcases) : P(res.testcases[i])
\* the dependency edges a -> b of subtask_dependency.json
Edges == UNION {{<<a, depJson[a][k]>> : k \in 1..Len(depJson[a])} : a \in Idx}
Res(t, i) == t[SubtaskNames[i]]
\* judge_result holds the tree built by INIT_RESULT_TREE
TreeBuilt == pc \in {"loop", "judging", "finalize", "done"}

\* C1: skip propagation. After FINALIZE, for every dependency edge a -> b
\* whose b did not end accepted, a is skipped in the published tree, every
\* testcase of a is skipped, and no testcase of a was ever executed.
SkipPropagation ==
    pc = "done" =>
        \A e \in Edges :
            Res(published.tree, e[2]).status /= "accepted" =>
                /\ Res(published.tree, e[1]).status = "skipped"
                /\ AllTestcases(Res(published.tree, e[1]), LAMBDA tc : tc.status = "skipped")
                /\ \A x \in executed : x[1] /= e[1]

\* C1 witness: B ended unaccepted with real verdicts, A depends on B, has
\* testcases and is skipped
SkipPropagationWitness ==
    /\ pc = "done"
    /\ <<1, 2>> \in Edges
    /\ Res(published.tree, 2).status = "unaccepted"
    /\ \E x \in executed : x[1] = 2
    /\ Len(problem[1].testcases) = MaxCases
    /\ Res(published.tree, 1).status = "skipped"

\* C2: score bounds. In the last published tree of a submission judged to
\* the end, every testcase has 0 <= score <= full_score and every subtask
\* has 0 <= score <= the configured subtask score.
ScoreBounds ==
    pc = "done" =>
        \A i \in Idx :
            /\ AllTestcases(Res(published.tree, i),
                            LAMBDA tc : 0 <= tc.score /\ tc.score <= tc.full_score)
            /\ 0 <= Res(published.tree, i).score
            /\ Res(published.tree, i).score <= problem[i].score

\* C3: result tree completeness. For a submission judged to the end, the
\* keys of the last published tree are exactly the problem's subtask names
\* and each subtask holds as many testcases as the problem defines.
ResultTreeComplete ==
    pc = "done" =>
        /\ DOMAIN published.tree = NameSet
        /\ \A i \in Idx :
              Len(Res(published.tree, i).testcases) = Len(problem[i].testcases)

\* C4 as stated: a judged subtask with method min has score 0 or the full
\* score, and the full score if and only if every testcase is accepted.
MinAggregationIff ==
    \A i \in Idx :
        (TreeBuilt /\ problem[i].method = "min"
            /\ Judged(Res(judge_result, i))) =>
        LET res == Res(judge_result, i)
        IN  /\ res.score \in {0, problem[i].score}
            /\ res.score = problem[i].score
                  <=> AllTestcases(res, LAMBDA tc : tc.status = "accepted")

\* C4 amended: a judged subtask with method min has the full score if
\* every testcase is accepted and score 0 otherwise.
MinAggregation ==
    \A i \in Idx :
        (TreeBuilt /\ problem[i].method = "min"
            /\ Judged(Res(judge_result, i))) =>
        LET res == Res(judge_result, i)
        IN  res.score = IF AllTestcases(res, LAMBDA tc : tc.status = "accepted")
                        THEN problem[i].score ELSE 0

\* C4 witness: a judged min subtask with a non-zero full score, one
\* accepted testcase and one failed, scored 0
MinAggregationWitness ==
    /\ pc = "done"
    /\ \E i \in Idx :
          /\ problem[i].method = "min"
          /\ problem[i].score > 0
          /\ Len(problem[i].testcases) = 2
          /\ Res(judge_result, i).testcases[1].status = "accepted"
          /\ Res(judge_result, i).testcases[2].status = "wrong_answer"
          /\ Res(judge_result, i).status = "unaccepted"
          /\ Res(judge_result, i).score = 0

\* C5: a subtask is issued, and any of its testcases run, only after every
\* subtask it depends on has been reported successful (and so is accepted).
IssuedAfterDependencies ==
    /\ \A k \in 1..Len(issued) :
          \A e \in Edges :
              e[1] = issued[k] =>
                  /\ dg.dropped[e[2]]
                  /\ Res(judge_result, e[2]).status = "accepted"
    /\ \A x \in executed :
          /\ x[1] \in SeqToSet(issued)
          /\ \A e \in Edges : e[1] = x[1] => dg.dropped[e[2]]

\* C5 witness: A depends on B, B was reported successful, then A was issued
\* and a testcase of A ran
IssuedAfterDependenciesWitness ==
    /\ <<1, 2>> \in Edges
    /\ issued = <<2, 1>>
    /\ <<1, 1>> \in executed

\* C7: whenever the container of a testcase was OOM-killed, the testcase's
\* status is memory_limit_exceed in the result tree and in every snapshot
\* published after the run, whatever the watcher's values and the exit code.
OomIsMemoryLimitExceed ==
    \A x \in oomKilled :
        /\ pc /= "failed" =>
              Res(judge_result, x[1]).testcases[x[2]].status = "memory_limit_exceed"
        /\ (pc /= "failed" /\ Res(published.tree, x[1]).testcases[x[2]].status
                \notin {"waiting", "judging"}) =>
              Res(published.tree, x[1]).testcases[x[2]].status = "memory_limit_exceed"
        /\ pc = "done" =>
              Res(published.tree, x[1]).testcases[x[2]].status = "memory_limit_exceed"

\* C7 witness: a submission judged to the end with an OOM-killed testcase
OomIsMemoryLimitExceedWitness ==
    /\ pc = "done"
    /\ \E x \in oomKilled :
          Res(published.tree, x[1]).testcases[x[2]].status = "memory_limit_exceed"

\* C20: compile failure is terminal and not a task error. Once the compile
\* command has exited non-zero, the last update published carries
\* extra_status compile_error, no subtask was issued and no testcase
\* executed, and nothing follows: no further update, no error of the task.
CompileErrorTerminal ==
    /\ [](pc = "compile_error" =>
            /\ published.extra_status = "compile_error"
            /\ issued = <<>>
            /\ executed = {})
    /\ [][pc = "compile_error" => (pc' = pc /\ published' = published)]_vars

\* C20 witness: a traditional submission whose compilation failed
CompileErrorTerminalWitness ==
    /\ pc = "compile_error"
    /\ ~submit_answer
    /\ published = Publish(EmptyTree, "compile_error")

\* a testcase result that is a verdict, no longer a placeholder
Decided(tc) == tc.status \notin {"waiting", "judging"}

\* C21: the last snapshot is the terminal state. For a submission judged to
\* the end, the last update published carries the final result tree: every
\* testcase has a verdict, every issued subtask its aggregated score and
\* status, every subtask of the skipped list is marked skipped. Every
\* update published while judging contains each testcase verdict and each
\* subtask aggregate decided before it. Nothing is published after the
\* final update.
LastSnapshotTerminal ==
    /\ [](pc = "done" =>
            /\ published.tree = judge_result
            /\ \A i \in Idx :
                  LET res == Res(published.tree, i)
                  IN  /\ \A k \in 1..Len(res.testcases) : Decided(res.testcases[k])
                      /\ res.status \in {"accepted", "unaccepted", "skipped"}
                      /\ Judged(res) =>
                            /\ res.score = AggregateScore(problem[i], res)
                            /\ res.status = SubtaskStatus(problem[i], res.score)
            /\ \A k \in 1..Len(DGSkipped(dg)) :
                  Res(published.tree, DGSkipped(dg)[k].idx).status = "skipped")
    /\ [][(TreeBuilt /\ published' /= published /\ pc' /= "failed") =>
            \A i \in Idx :
                LET old == Res(judge_result, i)
                    new == Res(published'.tree, i)
                IN  /\ \A k \in 1..Len(old.testcases) :
                          Decided(old.testcases[k]) => new.testcases[k] = old.testcases[k]
                    /\ Judged(old) => (new.score = old.score /\ new.status = old.status)]_vars
    /\ [][pc = "done" => published' = published]_vars

\* C21 witness: a submission judged to the end whose last update holds a
\* subtask with verdicts of executed testcases and a skipped subtask
LastSnapshotTerminalWitness ==
    /\ pc = "done"
    /\ published.tree = judge_result
    /\ Res(published.tree, 2).status = "unaccepted"
    /\ Len(problem[2].testcases) = MaxCases
    /\ <<2, MaxCases>> \in executed
    /\ Res(published.tree, 1).status = "skipped"

\* the statuses handle_traditional gives a testcase that is not accepted
NonAcceptedVerdicts ==
    {"memory_limit_exceed", "time_limit_exceed", "runtime_error",
     "output_size_limit_exceed", "wrong_answer", "unaccepted"}

\* C24: min short-circuit in traditional mode. In a subtask with method
\* min, once a testcase has a verdict other than accepted, no later
\* testcase of the subtask is executed, and each is recorded as skipped
\* with score 0.
MinShortCircuitTraditional ==
    (TreeBuilt /\ ~submit_answer) =>
        \A i \in Idx :
            problem[i].method = "min" =>
                \A k, k2 \in 1..Len(problem[i].testcases) :
                    (k < k2 /\ Res(judge_result, i).testcases[k].status
                                  \in NonAcceptedVerdicts) =>
                        /\ <<i, k2>> \notin executed
                        /\ Decided(Res(judge_result, i).testcases[k2]) =>
                              /\ Res(judge_result, i).testcases[k2].status = "skipped"
                              /\ Res(judge_result, i).testcases[k2].score = 0

\* C25: min short-circuit in submit-answer mode. In a subtask with method
\* min judged in submit-answer mode, once a testcase has ended not
\* accepted, no later testcase of the subtask is compared, and each is
\* recorded as skipped.
MinShortCircuitSubmitAnswer ==
    (TreeBuilt /\ submit_answer) =>
        \A i \in Idx :
            problem[i].method = "min" =>
                \A k, k2 \in 1..Len(problem[i].testcases) :
                    (k < k2 /\ Res(judge_result, i).testcases[k].status
                                  \in {"wrong_answer", "judge_failed"}) =>
                        /\ <<i, k2>> \notin executed
                        /\ Decided(Res(judge_result, i).testcases[k2]) =>
                              Res(judge_result, i).testcases[k2].status = "skipped"

\* the indexes get_skipped_subtasks lists for the graph as it is
SkippedIdx == {DGSkipped(dg)[k].idx : k \in 1..Len(DGSkipped(dg))}

\* C38: judged-or-skipped partition. For any dependency mapping over the
\* subtask names (cycles, self-dependencies and duplicated edges included)
\* and any outcomes, every subtask is issued by the scheduler at most once,
\* and once the schedule loop has ended the issued subtasks and the
\* subtasks get_skipped_subtasks lists are disjoint and together are all
\* the subtasks.
IssuedSkippedPartition ==
    /\ \A i, j \in 1..Len(issued) : issued[i] = issued[j] => i = j
    /\ pc \in {"finalize", "done"} =>
          /\ SeqToSet(issued) \cap SkippedIdx = {}
          /\ SeqToSet(issued) \cup SkippedIdx = Idx

\* C38 witness: A depends on itself and on B; B was issued and ended
\* accepted, A was never issued and is listed as skipped
IssuedSkippedPartitionWitness ==
    /\ pc = "done"
    /\ depJson[1] = <<1, 2>>
    /\ issued = <<2>>
    /\ dg.dropped[2]
    /\ SkippedIdx = {1}

\* the testcases of the problem's subtasks with status judging in a tree
JudgingIn(tree) ==
    {x \in Idx \X (1..MaxCases) :
        /\ SubtaskNames[x[1]] \in DOMAIN tree
        /\ x[2] <= Len(Res(tree, x[1]).testcases)
        /\ Res(tree, x[1]).testcases[x[2]].status = "judging"}

\* the statuses a testcase of an issued subtask ends with
TerminalVerdicts ==
    {"accepted", "wrong_answer", "unaccepted", "judge_failed", "skipped",
     "memory_limit_exceed", "time_limit_exceed", "runtime_error",
     "output_size_limit_exceed"}

NoUnfinishedTestcaseLoopWitness ==
    /\ pc = "judging"
    /\ ti > 2
    /\ Cardinality(JudgingIn(published.tree)) = 1

\* The schedule loop under fairness (SpecLoop): the submissions of Spec whose
\* subtasks take the whole score or nothing and have at most one testcase,
\* every dependency mapping, with the step of handle that is enabled
\* eventually taken: each testcase execution returns and the loop goes on.
\* An error return (TaskError) may happen or not.
InitLoop ==
    /\ Init
    /\ prior = EmptyTree
    /\ \A u \in Idx :
          /\ problem[u].method = "min"
          /\ problem[u].score = MaxSubtaskScore
          /\ Len(problem[u].testcases) <= 1

HandleStep ==
    \/ Prepare
    \/ Compile
    \/ InitResultTree
    \/ NextSubtask
    \/ JudgeTestcase
    \/ AggregateSubtask
    \/ Finalize

SpecLoop == InitLoop /\ [][Next]_vars /\ WF_vars(HandleStep)

\* C39: schedule loop termination. Given that each testcase execution
\* returns, the loop `while next() { run subtask; report(ok) }` ends after
\* at most as many iterations as there are subtasks, for any dependency
\* mapping (cyclic ones included) and any outcomes, and the handler then
\* reaches FINALIZE (unless a step returned an error).
ScheduleLoopTerminates ==
    /\ [](Len(issued) <= NSub)
    /\ (pc = "loop") ~> (pc \in {"done", "failed"})
    /\ [][(pc = "loop" /\ pc' /= "loop") =>
            IF DGNext(dg) = 0 THEN pc' = "finalize" ELSE pc' = "judging"]_vars

\* C39 witness: both subtasks depend on each other, the loop ended at once
\* and the handler has finalized with both subtasks skipped
ScheduleLoopTerminatesWitness ==
    /\ pc = "done"
    /\ depJson = <<<<2>>, <<1>>>>
    /\ issued = <<>>
    /\ SkippedIdx = Idx

(***************************************************************************)
(* Two runs of the dependency scheduler (SpecSched): the same ordered name *)
(* list, the same dependency json and the same success/failure decision   *)
(* per subtask; each run iterates the parsed HashMap in an order of its    *)
(* own.                                                                    *)
(***************************************************************************)
SchedNames == <<"A", "B", "C">>
SchedIdx == 1..Len(SchedNames)

InitSched ==
    /\ sdeps \in DepMappings(Len(SchedNames))
    /\ sdecide \in [SchedIdx -> BOOLEAN]
    /\ \E o1, o2 \in Perms(Len(SchedNames)) :
          /\ g1 = DGNew(sdeps, o1)
          /\ g2 = DGNew(sdeps, o2)
    /\ seq1 = <<>>
    /\ seq2 = <<>>
    /\ pc = "sched" /\ problem = 0 /\ depJson = 0 /\ submit_answer = FALSE
    /\ prior = 0 /\ judge_result = 0 /\ published = 0 /\ dg = 0 /\ cur = 0
    /\ ti = 0 /\ will_skip = FALSE /\ issued = 0 /\ executed = 0 /\ oomKilled = 0
    /\ sb = 0
    /\ sy = 0
    /\ ExtIdle

\* one round of `while let Some(name) = next() { ..; report(ok) }` in run 1
Run1Step ==
    /\ DGNext(g1) /= 0
    /\ seq1' = Append(seq1, DGNext(g1))
    /\ g1' = DGReport(g1, sdecide[DGNext(g1)])
    /\ UNCHANGED <<orchVars, sdeps, sdecide, g2, seq2, sb, sy, extVars>>

\* the same in run 2
Run2Step ==
    /\ DGNext(g2) /= 0
    /\ seq2' = Append(seq2, DGNext(g2))
    /\ g2' = DGReport(g2, sdecide[DGNext(g2)])
    /\ UNCHANGED <<orchVars, sdeps, sdecide, g1, seq1, sb, sy, extVars>>

NextSched == Run1Step \/ Run2Step

SpecSched == InitSched /\ [][NextSched]_vars

\* C6: determinism of scheduling. The two runs issue the same subtasks in
\* the same order: at any moment one issuance sequence is a prefix of the
\* other, and they are equal once both runs have ended.
SchedulingDeterministic ==
    /\ \A k \in 1..Len(seq1) : k <= Len(seq2) => seq1[k] = seq2[k]
    /\ (DGNext(g1) = 0 /\ DGNext(g2) = 0) => seq1 = seq2

\* C6 witness: both runs ended after issuing every subtask, and the two
\* graphs were built in different HashMap orders (rev_graph differs)
SchedulingDeterministicWitness ==
    /\ DGNext(g1) = 0 /\ DGNext(g2) = 0
    /\ Len(seq1) = Len(SchedNames)
    /\ seq1 = seq2
    /\ g1.rev_graph /= g2.rev_graph

(***************************************************************************)
(* One sandboxed testcase (SpecSandbox): watch_container                   *)
(* (core/runner/docker_watch.rs), the tail of execute_in_docker            *)
(* (core/runner/docker.rs) and the verdict of handle_traditional.          *)
(* Time is in microseconds since the watcher's `begin`.                    *)
(***************************************************************************)
SandboxSubtask ==
    [method |-> "sum", score |-> MaxSubtaskScore, memory_limit |-> MemoryLimit,
     time_limit |-> TimeLimit, testcases |-> <<[full_score |-> FullScore]>>]

\* time_limit * time_scale in microseconds (ms times thousandths), unrounded
ExactLimitUs == TimeLimit * DefaultTimeScale

\* the time_limit argument of execute_in_docker: scaled_time * 1000
SandboxTimeLimit == ScaledTime(TimeLimit, DefaultTimeScale) * 1000

\* the memory_limit argument of execute_in_docker, in bytes
SandboxMemoryLimit == MemoryLimit * 1024 * 1024

\* the user program: how long it runs before it exits by itself (or is
\* OOM-killed), its exit code, whether the kernel OOM-killed it
Programs ==
    {[runs |-> r, exit_code |-> e, oom |-> o] :
        r \in {SampleInterval \div 2,
               ExactLimitUs + SampleInterval \div 2,
               SandboxTimeLimit * 1000 + LongSleep},
        e \in {0, 1}, o \in BOOLEAN}

\* how long one usleep(100) plus the iteration's file reads may take
SleepDurations(now) ==
    IF now < ExactLimitUs + 2 * SampleInterval
    THEN {SampleInterval, SampleInterval + SampleInterval \div 2, LongSleep}
    ELSE {LongSleep}

InitSandbox ==
    /\ sb \in {[phase |-> "start", prog |-> p, now |-> 0, time_result |-> -1,
                total_memory |-> 0, memory_cost_count |-> 0, peak |-> 0,
                max_sleep |-> 0, watch_failed |-> FALSE, killed |-> FALSE,
                memory_result |-> 0, status |-> "judging", score |-> 0] :
                    p \in Programs}
    /\ pc = "sandbox" /\ problem = 0 /\ depJson = 0 /\ submit_answer = FALSE
    /\ prior = 0 /\ judge_result = 0 /\ published = 0 /\ dg = 0 /\ cur = 0
    /\ ti = 0 /\ will_skip = FALSE /\ issued = 0 /\ executed = 0 /\ oomKilled = 0
    /\ sdeps = 0 /\ sdecide = 0 /\ g1 = 0 /\ g2 = 0 /\ seq1 = 0 /\ seq2 = 0
    /\ sy = 0
    /\ ExtIdle

\* kill(pid, 0) == 0 at time `now`
Alive(prog, now) == now < prog.runs

\* watch_container up to its loop: /proc/<pid>/cgroup opened and the memory
\* controller found, or the open fails and the watcher returns zeros
WatchBegin ==
    /\ sb.phase = "start"
    /\ \/ sb' = [sb EXCEPT !.phase = "watching"]
       \/ sb' = [sb EXCEPT !.phase = "watched", !.watch_failed = TRUE,
                           !.time_result = 0, !.memory_result = 0]
    /\ UNCHANGED <<orchVars, schedVars, sy, extVars>>

\* the result of watch_container once its loop is left
WatchResult(w) ==
    [memory_result |-> IF w.memory_cost_count = 0 THEN 0
                       ELSE w.total_memory \div w.memory_cost_count,
     time_result |-> IF w.time_result = -1 THEN 0 ELSE w.time_result]

\* one evaluation of `while kill(pid, 0) == 0 { .. }`
WatchLoop ==
    /\ sb.phase = "watching"
    /\ IF ~Alive(sb.prog, sb.now)
       THEN sb' = [sb EXCEPT !.phase = "watched",
                             !.memory_result = WatchResult(sb).memory_result,
                             !.time_result = WatchResult(sb).time_result]
       ELSE LET time_mul_1000 == SandboxTimeLimit * 1000
                w == [sb EXCEPT !.time_result = sb.now]
            IN  IF w.time_result >= time_mul_1000
                THEN sb' = [w EXCEPT !.phase = "watched",
                                     !.memory_result = WatchResult(w).memory_result,
                                     !.time_result = WatchResult(w).time_result]
                ELSE \/ \* fopen fails: the loop is left
                        sb' = [w EXCEPT !.phase = "watched", !.watch_failed = TRUE,
                                        !.memory_result = WatchResult(w).memory_result,
                                        !.time_result = WatchResult(w).time_result]
                     \/ \* a sample of memory.usage_in_bytes, then usleep(100)
                        \E curr_usage \in {0, SandboxMemoryLimit - 1},
                           d \in SleepDurations(sb.now) :
                          sb' = [w EXCEPT
                                   !.total_memory = w.total_memory + curr_usage,
                                   !.memory_cost_count = w.memory_cost_count + 1,
                                   !.peak = IF curr_usage > w.peak THEN curr_usage ELSE w.peak,
                                   !.max_sleep = IF d > w.max_sleep THEN d ELSE w.max_sleep,
                                   !.now = w.now + d]
    /\ UNCHANGED <<orchVars, schedVars, sy, extVars>>

\* execute_in_docker after the watcher: the container killed if it has not
\* exited, its exit code and OOM flag inspected, memory_cost decided; then
\* the verdict of handle_traditional
SandboxVerdict ==
    /\ sb.phase = "watched"
    /\ LET exited == ~Alive(sb.prog, sb.now)
           run_result ==
               [oom |-> sb.prog.oom,
                memory_cost |-> ExecMemoryCost(sb.prog.oom, sb.memory_result,
                                               SandboxMemoryLimit),
                time_cost |-> sb.time_result,
                exit_code |-> IF exited THEN sb.prog.exit_code ELSE KilledExitCode]
           tc == [full_score |-> FullScore, score |-> 0, status |-> "judging"]
       IN  \E out_too_large \in BOOLEAN, cmp \in CompareOutcomes(FullScore) :
             LET h == HandleTraditional(tc, SandboxSubtask, run_result,
                                        out_too_large, cmp, FALSE)
             IN  sb' = [sb EXCEPT !.phase = "done", !.killed = ~exited,
                                  !.status = h.tc.status, !.score = h.tc.score]
    /\ UNCHANGED <<orchVars, schedVars, sy, extVars>>

NextSandbox == WatchBegin \/ WatchLoop \/ SandboxVerdict

SpecSandbox == InitSandbox /\ [][NextSandbox]_vars

\* C8: sandbox time cap. A testcase whose program ran longer than
\* time_limit * time_scale while staying under the memory limit has status
\* time_limit_exceed, whatever its exit code (stated for a watcher that met
\* no I/O failure and was never descheduled).
TimeCapEnforced ==
    (/\ sb.phase = "done"
     /\ ~sb.watch_failed
     /\ sb.max_sleep < LongSleep
     /\ sb.prog.runs > ExactLimitUs
     /\ ~sb.prog.oom
     /\ sb.peak < SandboxMemoryLimit) => sb.status = "time_limit_exceed"

\* C31: watcher termination. watch_container, called with the time limit
\* time_us in microseconds, stops watching as soon as the elapsed time it has
\* read reaches time_us: it never goes on to another sample with an elapsed
\* time of time_us or more, so a process that never exits is watched for
\* about time_us microseconds and not for a multiple of it.
WatcherStopsAtTimeLimit ==
    sb.phase = "watching" => sb.time_result < SandboxTimeLimit

(***************************************************************************)
(* Testdata synchronizer (SpecSync): sync_problem_files                    *)
(* (task/local/util.rs) run twice on one problem directory, the server's   *)
(* file list unchanged in between.                                         *)
(* A file name is <<base, n>>: base followed by n suffixes ".lock".        *)
(* Times are in half seconds; a sidecar holds whole seconds.               *)
(***************************************************************************)
LockOf(f) == <<f[1], f[2] + 1>>
EndsWithLock(f) == f[2] >= 1

DataContent == [kind |-> "data", v |-> 0]
JunkContent == [kind |-> "junk", v |-> 0]
Timestamp(secs) == [kind |-> "ts", v |-> secs]

\* last_modified_time values of the server, in half seconds
ModTimes == {1, MaxClock - 2, MaxClock - 1}

\* the file lists the server may give: up to two distinct names
ServerNames == {<<"a", 0>>, <<"a", 1>>, <<"b", 0>>}
ServerLists ==
    {l \in SeqsUpTo([name : ServerNames, last_modified_time : ModTimes], 2) :
        \A i, j \in 1..Len(l) : l[i].name = l[j].name => i = j}

\* the problem directories a sync may start from: per base name, the data
\* file present or not, and its sidecar absent, holding a timestamp, or
\* holding something that is no number
DirChoices ==
    [{"a", "b"} -> [data : BOOLEAN,
                    lock : {"none", "junk", "old", "new"}]]
DirOf(c) ==
    LET present == {<<b, 0>> : b \in {x \in {"a", "b"} : c[x].data}}
                   \cup {<<b, 1>> : b \in {x \in {"a", "b"} : c[x].lock /= "none"}}
    IN  [f \in present |->
            IF f[2] = 0 THEN DataContent
            ELSE IF c[f[1]].lock = "junk" THEN JunkContent
            ELSE IF c[f[1]].lock = "old" THEN Timestamp(0)
            ELSE Timestamp(MaxClock)]

InitSync ==
    /\ sy \in {[phase |-> "idle", run |-> 1, dir |-> DirOf(c), server |-> l,
                files |-> <<>>, k |-> 0, clock |-> t, downloaded |-> {}] :
                    c \in DirChoices, l \in ServerLists,
                    t \in {MaxClock - 3, MaxClock - 2, MaxClock - 1}}
    /\ pc = "sync" /\ problem = 0 /\ depJson = 0 /\ submit_answer = FALSE
    /\ prior = 0 /\ judge_result = 0 /\ published = 0 /\ dg = 0 /\ cur = 0
    /\ ti = 0 /\ will_skip = FALSE /\ issued = 0 /\ executed = 0 /\ oomKilled = 0
    /\ sdeps = 0 /\ sdecide = 0 /\ g1 = 0 /\ g2 = 0 /\ seq1 = 0 /\ seq2 = 0
    /\ sb = 0
    /\ ExtIdle

\* the file list requested from the web API, the problem's lock taken
SyncList ==
    /\ sy.phase = "idle"
    /\ sy' = [sy EXCEPT !.phase = "scan", !.files = sy.server]
    /\ UNCHANGED <<orchVars, schedVars, sb, extVars>>

\* the directory after the removal loop: every regular file whose name does
\* not end in .lock and is not in the list is removed, with its sidecar
CleanedDir(dir, files) ==
    LET file_list_set == {files[i].name : i \in 1..Len(files)}
        gone == {f \in DOMAIN dir : ~EndsWithLock(f) /\ f \notin file_list_set}
        removed == gone \cup {LockOf(f) : f \in gone}
    IN  [f \in (DOMAIN dir) \ removed |-> dir[f]]

SyncCleanup ==
    /\ sy.phase = "scan"
    /\ sy' = [sy EXCEPT !.phase = "files", !.k = 1,
                        !.dir = CleanedDir(sy.dir, sy.files)]
    /\ UNCHANGED <<orchVars, schedVars, sb, extVars>>

\* should_download for a file of the list
ShouldDownload(dir, file) ==
    LET lock_file == LockOf(file.name)
    IN  IF lock_file \in DOMAIN dir
        THEN IF dir[lock_file].kind = "ts"
             THEN 2 * dir[lock_file].v < file.last_modified_time
             ELSE TRUE
        ELSE TRUE

\* the directory after a download at clock `now`: the data file written,
\* then the sidecar with the current timestamp in whole seconds
Downloaded(dir, file, now) ==
    LET data_file == file.name
        lock_file == LockOf(file.name)
        current_timestamp == now \div 2
    IN  [f \in (DOMAIN dir) \cup {data_file, lock_file} |->
            IF f = lock_file THEN Timestamp(current_timestamp)
            ELSE IF f = data_file THEN DataContent
            ELSE dir[f]]

\* one iteration of `for file in files.into_iter()`
SyncFile ==
    /\ sy.phase = "files"
    /\ sy.k <= Len(sy.files)
    /\ LET file == sy.files[sy.k]
       IN  IF ShouldDownload(sy.dir, file)
           THEN \/ \E d \in {0, 1} :
                     LET now == IF sy.clock + d > MaxClock THEN MaxClock ELSE sy.clock + d
                     IN  sy' = [sy EXCEPT !.dir = Downloaded(sy.dir, file, now),
                                         !.clock = now,
                                         !.downloaded = sy.downloaded \cup {<<sy.run, file.name>>},
                                         !.k = sy.k + 1]
                \/ \* the download or a write fails: sync returns the error
                   sy' = [sy EXCEPT !.phase = "failed"]
           ELSE sy' = [sy EXCEPT !.k = sy.k + 1]
    /\ UNCHANGED <<orchVars, schedVars, sb, extVars>>

\* Ok(()) after the last file
SyncReturn ==
    /\ sy.phase = "files"
    /\ sy.k > Len(sy.files)
    /\ sy' = [sy EXCEPT !.phase = "returned"]
    /\ UNCHANGED <<orchVars, schedVars, sb, extVars>>

\* the next task on the same problem syncs again
SyncAgain ==
    /\ sy.phase = "returned"
    /\ sy.run = 1
    /\ sy' = [sy EXCEPT !.phase = "idle", !.run = 2, !.files = <<>>, !.k = 0]
    /\ UNCHANGED <<orchVars, schedVars, sb, extVars>>

NextSync == SyncList \/ SyncCleanup \/ SyncFile \/ SyncReturn \/ SyncAgain

SpecSync == InitSync /\ [][NextSync]_vars

\* C9: sync postcondition. After a successful sync every file of the
\* server list is present, its sidecar holds a timestamp >= the file's
\* last_modified_time, and no regular non-sidecar file outside the list
\* remains.
SyncPostcondition ==
    sy.phase = "returned" =>
        /\ \A i \in 1..Len(sy.server) :
              LET file == sy.server[i]
              IN  /\ file.name \in DOMAIN sy.dir
                  /\ LockOf(file.name) \in DOMAIN sy.dir
                  /\ sy.dir[LockOf(file.name)].kind = "ts"
                  /\ 2 * sy.dir[LockOf(file.name)].v >= file.last_modified_time
        /\ \A f \in DOMAIN sy.dir :
              ~EndsWithLock(f) => \E i \in 1..Len(sy.server) : sy.server[i].name = f

\* C10: sync idempotence. With the server's list unchanged, the second of
\* two successive syncs downloads no file.
SyncIdempotent ==
    sy.run = 2 => \A x \in sy.downloaded : x[1] /= 2

(***************************************************************************)
(* The variables of the specifications above, when another one runs.       *)
(***************************************************************************)
BaseIdle(name) ==
    /\ pc = name /\ problem = 0 /\ depJson = 0 /\ submit_answer = FALSE
    /\ prior = 0 /\ judge_result = 0 /\ published = 0 /\ dg = 0 /\ cur = 0
    /\ ti = 0 /\ will_skip = FALSE /\ issued = 0 /\ executed = 0 /\ oomKilled = 0
    /\ sdeps = 0 /\ sdecide = 0 /\ g1 = 0 /\ g2 = 0 /\ seq1 = 0 /\ seq2 = 0
    /\ sb = 0 /\ sy = 0

baseVars == <<orchVars, schedVars, sb, sy>>

(***************************************************************************)
(* Concurrent tasks (SpecTasks): the three celery handlers behind their    *)
(* semaphores (task/local/executor.rs, task/online_ide/executor.rs,        *)
(* task/remote/mod.rs, core/state.rs) and, for local tasks, the per-problem*)
(* lock of sync_problem_files (task/local/util.rs) followed by the reads   *)
(* of the problem directory while judging.                                 *)
(***************************************************************************)
Tasks == 1..NTasks
TaskKinds == {"local", "ide", "remote"}
ProblemIds == {1, 2}

\* variant: the gate lets every task through
GateOpenAlways(permits) == TRUE

\* Semaphore::acquire completes only when a permit is available
GateOpen(permits) == permits > 0

\* variant: every task makes a mutex of its own
ProblemLockFresh(locks, problem_id, t) == t

\* the Arc<Mutex<()>> a task gets from file_dir_locks for its problem: the
\* entry's, or a new one (named after the task that creates it) when vacant
ProblemLock(locks, problem_id, t) ==
    IF locks[problem_id] = 0 THEN t ELSE locks[problem_id]

\* the phases of a local task in which its sync holds the problem's mutex
\* and scans, removes, downloads or writes files
SyncPhases == {"scanning", "downloading"}
\* the phases of a handler between its gate and its return
InsidePhases == {"handling", "listed", "waiting", "judging", "running"} \cup SyncPhases

InitTasks ==
    /\ ct \in {[kind |-> k, problem_id |-> pid,
                phase |-> [t \in Tasks |-> "queued"],
                permits |-> MaxTasksSametime,
                remote_permits |-> MaxRemoteTaskSametime,
                file_dir_locks |-> [q \in ProblemIds |-> 0],
                mutex |-> [t \in Tasks |-> 0],
                problem_lock |-> [t \in Tasks |-> 0],
                result |-> [t \in Tasks |-> "none"]] :
                    k \in [Tasks -> TaskKinds],
                    pid \in [Tasks -> ProblemIds]}
    /\ \A t \in Tasks : ct.kind[t] /= "local" => ct.problem_id[t] = 1
    /\ BaseIdle("tasks")
    /\ dk = 0 /\ vd = 0 /\ sj = 0 /\ rp = 0 /\ hd = 0 /\ FnIdle

\* task_count_lock.acquire().await in local_judge_task_handler
GateLocal ==
    /\ \E t \in Tasks :
          /\ ct.kind[t] = "local" /\ ct.phase[t] = "queued"
          /\ GateOpen(ct.permits)
          /\ ct' = [ct EXCEPT !.permits = @ - 1, !.phase[t] = "handling"]
    /\ UNCHANGED <<baseVars, dk, vd, sj, rp, hd, fnVars>>

\* task_count_lock.acquire().await in online_ide_handler
GateIde ==
    /\ \E t \in Tasks :
          /\ ct.kind[t] = "ide" /\ ct.phase[t] = "queued"
          /\ GateOpen(ct.permits)
          /\ ct' = [ct EXCEPT !.permits = @ - 1, !.phase[t] = "running"]
    /\ UNCHANGED <<baseVars, dk, vd, sj, rp, hd, fnVars>>

\* remote_task_count_semaphore.acquire().await in remote_judge_task_handler
GateRemote ==
    /\ \E t \in Tasks :
          /\ ct.kind[t] = "remote" /\ ct.phase[t] = "queued"
          /\ GateOpen(ct.remote_permits)
          /\ ct' = [ct EXCEPT !.remote_permits = @ - 1, !.phase[t] = "running"]
    /\ UNCHANGED <<baseVars, dk, vd, sj, rp, hd, fnVars>>

\* sync_problem_files: the file list requested from the web API
FetchFileList ==
    /\ \E t \in Tasks :
          /\ ct.phase[t] = "handling"
          /\ ct' = [ct EXCEPT !.phase[t] = "listed"]
    /\ UNCHANGED <<baseVars, dk, vd, sj, rp, hd, fnVars>>

\* the block under file_dir_locks.lock(): the problem's entry created when
\* vacant, the Arc cloned
LockEntry ==
    /\ \E t \in Tasks :
          /\ ct.phase[t] = "listed"
          /\ LET v == ProblemLock(ct.file_dir_locks, ct.problem_id[t], t)
             IN  ct' = [ct EXCEPT
                          !.file_dir_locks[ct.problem_id[t]] = IF @ = 0 THEN v ELSE @,
                          !.problem_lock[t] = v,
                          !.phase[t] = "waiting"]
    /\ UNCHANGED <<baseVars, dk, vd, sj, rp, hd, fnVars>>

\* let _guard = problem_lock.lock().await
AcquireProblemLock ==
    /\ \E t \in Tasks :
          /\ ct.phase[t] = "waiting"
          /\ ct.mutex[ct.problem_lock[t]] = 0
          /\ ct' = [ct EXCEPT !.mutex[ct.problem_lock[t]] = t,
                              !.phase[t] = "scanning"]
    /\ UNCHANGED <<baseVars, dk, vd, sj, rp, hd, fnVars>>

\* the directory created and scanned, the files the server dropped removed
SyncScan ==
    /\ \E t \in Tasks :
          /\ ct.phase[t] = "scanning"
          /\ ct' = [ct EXCEPT !.phase[t] = "downloading"]
    /\ UNCHANGED <<baseVars, dk, vd, sj, rp, hd, fnVars>>

\* the files downloaded and written with their sidecars; sync returns Ok and
\* _guard is dropped; handle goes on to read the problem directory
SyncDone ==
    /\ \E t \in Tasks :
          /\ ct.phase[t] = "downloading"
          /\ ct' = [ct EXCEPT !.mutex[ct.problem_lock[t]] = 0,
                              !.phase[t] = "judging"]
    /\ UNCHANGED <<baseVars, dk, vd, sj, rp, hd, fnVars>>

\* handle returns: Ok after the last status update, or an error from any `?`
\* (a guard held by sync is dropped); the semaphore guard is dropped when
\* local_judge_task_handler returns
LocalReturn ==
    /\ \E t \in Tasks, r \in {"ok", "err"} :
          /\ ct.kind[t] = "local"
          /\ ct.phase[t] \in (IF r = "ok" THEN {"judging"}
                              ELSE {"handling", "judging"} \cup SyncPhases)
          /\ ct' = [ct EXCEPT
                      !.mutex = [a \in Tasks |-> IF ct.mutex[a] = t THEN 0 ELSE ct.mutex[a]],
                      !.permits = @ + 1,
                      !.phase[t] = "returned",
                      !.result[t] = r]
    /\ UNCHANGED <<baseVars, dk, vd, sj, rp, hd, fnVars>>

\* online_ide_handler returns Ok or a task error
IdeReturn ==
    /\ \E t \in Tasks, r \in {"ok", "err"} :
          /\ ct.kind[t] = "ide" /\ ct.phase[t] = "running"
          /\ ct' = [ct EXCEPT !.permits = @ + 1, !.phase[t] = "returned",
                              !.result[t] = r]
    /\ UNCHANGED <<baseVars, dk, vd, sj, rp, hd, fnVars>>

\* remote_judge_task_handler returns Ok or a task error
RemoteReturn ==
    /\ \E t \in Tasks, r \in {"ok", "err"} :
          /\ ct.kind[t] = "remote" /\ ct.phase[t] = "running"
          /\ ct' = [ct EXCEPT !.remote_permits = @ + 1, !.phase[t] = "returned",
                              !.result[t] = r]
    /\ UNCHANGED <<baseVars, dk, vd, sj, rp, hd, fnVars>>

NextTasks ==
    \/ GateLocal
    \/ GateIde
    \/ GateRemote
    \/ FetchFileList
    \/ LockEntry
    \/ AcquireProblemLock
    \/ SyncScan
    \/ SyncDone
    \/ LocalReturn
    \/ IdeReturn
    \/ RemoteReturn

SpecTasks == InitTasks /\ [][NextTasks]_vars

\* C11: per-problem mutual exclusion of sync. At most one task is in the
\* file-modifying part of sync_problem_files for a problem id, and every
\* task that has looked the problem up holds the one lock the first task
\* created for it.
SyncMutualExclusion ==
    /\ \A t, u \in Tasks :
          (t /= u /\ ct.problem_id[t] = ct.problem_id[u]
             /\ ct.phase[t] \in SyncPhases) => ct.phase[u] \notin SyncPhases
    /\ \A t \in Tasks :
          ct.problem_lock[t] /= 0 =>
              ct.problem_lock[t] = ct.file_dir_locks[ct.problem_id[t]]

\* C11 witness: a task is downloading under the lock it created while
\* another task of the same problem waits for that same lock
SyncMutualExclusionWitness ==
    \E t, u \in Tasks :
        /\ t /= u /\ ct.problem_id[t] = ct.problem_id[u]
        /\ ct.phase[t] = "downloading" /\ ct.phase[u] = "waiting"
        /\ ct.problem_lock[t] = t /\ ct.problem_lock[u] = t

\* C12: no task reads the files of a problem's directory while another
\* task's sync of the same problem is removing or rewriting them.
NoReadDuringSync ==
    \A t, u \in Tasks :
        (t /= u /\ ct.problem_id[t] = ct.problem_id[u]
           /\ ct.phase[t] = "judging") => ct.phase[u] \notin SyncPhases

\* C18: concurrency cap. The local and IDE tasks between their gate and
\* their return are at most max_tasks_sametime and hold exactly the permits
\* missing from task_count_lock; the remote tasks likewise with their own
\* semaphore; so no remote task holds a local permit and every returned
\* task has given its permit back.
ConcurrencyCap ==
    LET inside == {t \in Tasks : ct.kind[t] /= "remote" /\ ct.phase[t] \in InsidePhases}
        remote == {t \in Tasks : ct.kind[t] = "remote" /\ ct.phase[t] \in InsidePhases}
    IN  /\ Cardinality(inside) <= MaxTasksSametime
        /\ Cardinality(remote) <= MaxRemoteTaskSametime
        /\ ct.permits = MaxTasksSametime - Cardinality(inside)
        /\ ct.remote_permits = MaxRemoteTaskSametime - Cardinality(remote)

\* C18 witness: a handler has returned an error and given its permit back,
\* after which task_count_lock is exhausted again with a task still waiting
\* at the gate
ConcurrencyCapWitness ==
    /\ ct.permits = 0
    /\ \E t \in Tasks : ct.kind[t] /= "remote" /\ ct.phase[t] = "queued"
    /\ \E t \in Tasks : ct.kind[t] /= "remote" /\ ct.result[t] = "err"

(***************************************************************************)
(* One call of execute_in_docker (SpecDocker): every Docker API call of    *)
(* core/runner/docker.rs with its error return, then what the caller       *)
(* handle_traditional (task/local/traditional.rs), handle and              *)
(* local_judge_task_handler (task/local/executor.rs) make of the result.   *)
(***************************************************************************)
\* the container's program: whether it has exited when the watcher returns,
\* its exit code, whether the kernel OOM-killed it
DockerPrograms == [exited : BOOLEAN, exit_code : {0, 1}, oom : BOOLEAN]

InitDocker ==
    /\ dk \in {[phase |-> "connect", prog |-> p, created |-> FALSE, killed |-> FALSE,
                remove_requested |-> FALSE, failed_at |-> "", result |-> "none",
                watch_io |-> "none",
                time_result |-> 0, memory_result |-> 0, run_result |-> 0,
                status |-> "judging", aborted |-> FALSE, published_empty |-> FALSE] :
                    p \in DockerPrograms}
    /\ BaseIdle("docker")
    /\ ct = 0 /\ vd = 0 /\ sj = 0 /\ rp = 0 /\ hd = 0 /\ FnIdle

\* `?` on an Err: execute_in_docker returns the error at once
DockerErr(d, where) == [d EXCEPT !.phase = "returned", !.result = "err", !.failed_at = where]

\* Docker::connect_with_socket_defaults
DockerConnect ==
    /\ dk.phase = "connect"
    /\ \/ dk' = [dk EXCEPT !.phase = "create"]
       \/ dk' = DockerErr(dk, "connect")
    /\ UNCHANGED <<baseVars, ct, vd, sj, rp, hd, fnVars>>

\* create_container
DockerCreate ==
    /\ dk.phase = "create"
    /\ \/ dk' = [dk EXCEPT !.phase = "start", !.created = TRUE]
       \/ dk' = DockerErr(dk, "create")
    /\ UNCHANGED <<baseVars, ct, vd, sj, rp, hd, fnVars>>

\* start_container
DockerStart ==
    /\ dk.phase = "start"
    /\ \/ dk' = [dk EXCEPT !.phase = "inspect_pid"]
       \/ dk' = DockerErr(dk, "start")
    /\ UNCHANGED <<baseVars, ct, vd, sj, rp, hd, fnVars>>

\* inspect_container for the pid: the call, the state field, the pid field
DockerInspectPid ==
    /\ dk.phase = "inspect_pid"
    /\ \/ dk' = [dk EXCEPT !.phase = "watch"]
       \/ \E where \in {"inspect", "state", "pid"} : dk' = DockerErr(dk, where)
    /\ UNCHANGED <<baseVars, ct, vd, sj, rp, hd, fnVars>>

\* the I/O failure watch_container meets, if any: /proc/<pid>/cgroup cannot
\* be opened, a line of it cannot be read, a line is not UTF-8, no line
\* names the memory controller, memory.usage_in_bytes cannot be opened
WatchFailures ==
    {"none", "open_cgroup", "read_line", "decode_line", "no_memory_line", "open_usage"}

\* what watch_container returns under failure `io`, when its loop (if it
\* gets there) has read the elapsed time t and the average usage m so far
WatchContainer(io, t, m) ==
    IF io = "open_cgroup"
    THEN [ok |-> TRUE, time_result |-> 0, memory_result |-> 0]
    ELSE IF io \in {"read_line", "decode_line", "no_memory_line"}
    THEN [ok |-> FALSE, time_result |-> 0, memory_result |-> 0]
    ELSE [ok |-> TRUE, time_result |-> t, memory_result |-> m]

\* spawn_blocking(watch_container): its result, a join error or its Err
DockerWatch ==
    /\ dk.phase = "watch"
    /\ \/ \E io \in WatchFailures, t \in {0, SandboxTimeLimit},
             m \in {0, SandboxMemoryLimit, SandboxMemoryLimit + 1} :
            LET w == WatchContainer(io, t, m)
            IN  IF w.ok
                THEN dk' = [dk EXCEPT !.phase = "kill_check", !.watch_io = io,
                                      !.time_result = w.time_result,
                                      !.memory_result = w.memory_result]
                ELSE dk' = [DockerErr(dk, "watch") EXCEPT !.watch_io = io]
       \/ dk' = DockerErr(dk, "join")
    /\ UNCHANGED <<baseVars, ct, vd, sj, rp, hd, fnVars>>

\* inspect_container for the status; kill_container unless EXITED (a failed
\* kill is only logged)
DockerKillCheck ==
    /\ dk.phase = "kill_check"
    /\ \/ dk' = [dk EXCEPT !.phase = "logs", !.killed = ~dk.prog.exited]
       \/ \E where \in {"inspect", "state"} : dk' = DockerErr(dk, where)
    /\ UNCHANGED <<baseVars, ct, vd, sj, rp, hd, fnVars>>

\* the log stream collected; `line?` on a stream error
DockerLogs ==
    /\ dk.phase = "logs"
    /\ \/ dk' = [dk EXCEPT !.phase = "inspect_exit"]
       \/ dk' = DockerErr(dk, "logs")
    /\ UNCHANGED <<baseVars, ct, vd, sj, rp, hd, fnVars>>

\* inspect_container for the exit code and the OOM flag
DockerInspectExit ==
    /\ dk.phase = "inspect_exit"
    /\ \/ dk' = [dk EXCEPT !.phase = "remove"]
       \/ dk' = DockerErr(dk, "inspect")
    /\ UNCHANGED <<baseVars, ct, vd, sj, rp, hd, fnVars>>

\* remove_container (a failed removal is only logged)
DockerRemove ==
    /\ dk.phase = "remove"
    /\ dk' = [dk EXCEPT !.phase = "result", !.remove_requested = TRUE]
    /\ UNCHANGED <<baseVars, ct, vd, sj, rp, hd, fnVars>>

\* memory accounting, attr.state's exit code, the ExecuteResult
DockerResult ==
    /\ dk.phase = "result"
    /\ \/ dk' = [dk EXCEPT
                   !.phase = "returned", !.result = "ok",
                   !.run_result =
                       [oom |-> dk.prog.oom,
                        memory_cost |-> ExecMemoryCost(dk.prog.oom, dk.memory_result,
                                                       SandboxMemoryLimit),
                        time_cost |-> dk.time_result,
                        exit_code |-> IF dk.killed THEN KilledExitCode
                                      ELSE dk.prog.exit_code]]
       \/ dk' = DockerErr(dk, "state")
    /\ UNCHANGED <<baseVars, ct, vd, sj, rp, hd, fnVars>>

\* handle_traditional after execute_in_docker(..).await.map_err(..)?: the
\* verdict on Ok; on Err the error goes up through handle to
\* local_judge_task_handler, which publishes an empty tree with the error
\* text and returns a task error
DockerCaller ==
    /\ dk.phase = "returned"
    /\ IF dk.result = "ok"
       THEN \E out_too_large \in BOOLEAN, cmp \in CompareOutcomes(FullScore) :
              LET tc == [full_score |-> FullScore, score |-> 0, status |-> "judging"]
                  h == HandleTraditional(tc, SandboxSubtask, dk.run_result,
                                         out_too_large, cmp, FALSE)
              IN  dk' = [dk EXCEPT !.phase = "handled", !.status = h.tc.status]
       ELSE dk' = [dk EXCEPT !.phase = "handled", !.aborted = TRUE,
                             !.published_empty = TRUE]
    /\ UNCHANGED <<baseVars, ct, vd, sj, rp, hd, fnVars>>

NextDocker ==
    \/ DockerConnect
    \/ DockerCreate
    \/ DockerStart
    \/ DockerInspectPid
    \/ DockerWatch
    \/ DockerKillCheck
    \/ DockerLogs
    \/ DockerInspectExit
    \/ DockerRemove
    \/ DockerResult
    \/ DockerCaller

SpecDocker == InitDocker /\ [][NextDocker]_vars

\* C13: container cleanup. Whenever execute_in_docker has returned, with a
\* result or with an error, the container it created has been asked to be
\* removed.
ContainerRemovedOnReturn ==
    (dk.phase \in {"returned", "handled"} /\ dk.created) => dk.remove_requested

\* C14: sandbox failure handling. When execute_in_docker failed for a
\* testcase in traditional mode, the testcase is recorded runtime_error and
\* the submission is not aborted.
SandboxFailureIsRuntimeError ==
    (dk.phase = "handled" /\ dk.result = "err") =>
        dk.status = "runtime_error" /\ ~dk.aborted

\* C30: executor memory accounting. The memory_cost execute_in_docker
\* returns is the container's memory limit when the container was
\* OOM-killed; otherwise 0 when the watcher's value is greater than the
\* memory limit; otherwise the watcher's value. So it never exceeds the
\* memory limit.
ExecMemoryAccounting ==
    (dk.phase \in {"returned", "handled"} /\ dk.result = "ok") =>
        LET memory_cost == dk.run_result.memory_cost
        IN  /\ dk.prog.oom => memory_cost = SandboxMemoryLimit
            /\ (~dk.prog.oom /\ dk.memory_result > SandboxMemoryLimit) => memory_cost = 0
            /\ (~dk.prog.oom /\ dk.memory_result <= SandboxMemoryLimit) =>
                  memory_cost = dk.memory_result
            /\ memory_cost <= SandboxMemoryLimit

\* C32: watcher failure mode. On any I/O failure while locating or reading
\* the cgroup files, watch_container returns time 0 and memory 0 instead of
\* an error, and execute_in_docker does not fail at the watcher.
WatcherFailureGivesZeros ==
    dk.watch_io /= "none" =>
        /\ dk.failed_at /= "watch"
        /\ dk.time_result = 0
        /\ dk.memory_result = 0

\* C30 witness: a container that was not OOM-killed, whose watcher
\* reported more than the limit: memory_cost 0 is returned
ExecMemoryAccountingWitness ==
    /\ dk.phase = "returned"
    /\ dk.result = "ok"
    /\ ~dk.prog.oom
    /\ dk.memory_result > SandboxMemoryLimit
    /\ dk.run_result.memory_cost = 0

(***************************************************************************)
(* The testcases of one subtask (SpecVerdict): the body of the testcase    *)
(* loop of handle (task/local/executor.rs) with handle_traditional and     *)
(* handle_submit_answer, keeping what the comparator returned for each     *)
(* testcase.                                                               *)
(***************************************************************************)
\* the entry of a testcase that was not executed in the history of runs
NoRun ==
    [ran |-> FALSE,
     r |-> [oom |-> FALSE, memory_cost |-> 0, time_cost |-> 0, exit_code |-> 0],
     out_too_large |-> FALSE, cmp |-> [ok |-> TRUE, score |-> 0]]

\* ProblemSubtask.method is a free string: the two methods and another one
VerdictMethods == Methods \cup {"other"}

VerdictSubtasks ==
    [method : VerdictMethods, score : SubtaskScores, memory_limit : {MemoryLimit},
     time_limit : {TimeLimit},
     testcases : [1..MaxCases -> [full_score : 0..FullScore]]]

\* answer_files of handle in submit-answer mode: every required output
\* name gets an entry, the archive's entry when the archive has one and an
\* empty Vec when it has none
AnswerFiles(required_files, archive) ==
    [t \in required_files |-> IF t \in archive THEN "archived" ELSE "empty"]

\* a testcase's output file is named by the testcase's index; `archive` is
\* the set of names with an entry in the user's zip
InitVerdict ==
    /\ vd \in {[submit_answer |-> sa, subtask |-> st, i |-> 1,
                archive |-> archive,
                answer_files |-> IF sa THEN AnswerFiles(1..MaxCases, archive)
                                 ELSE AnswerFiles({}, {}),
                testcases |-> FreshSubtaskResult(st).testcases,
                will_skip |-> FALSE, compared |-> {}, cmp_err |-> {},
                runs |-> [k \in 1..MaxCases |-> NoRun],
                score |-> 0, status |-> "waiting",
                dg |-> DGNew(<< <<>> >>, <<1>>)] :
                    sa \in BOOLEAN, st \in VerdictSubtasks,
                    archive \in SUBSET (1..MaxCases)}
    /\ BaseIdle("verdict")
    /\ ct = 0 /\ dk = 0 /\ sj = 0 /\ rp = 0 /\ hd = 0 /\ FnIdle

\* one iteration of the testcase loop: skipped when will_skip is set, else
\* handle_submit_answer or handle_traditional
VerdictStep ==
    /\ vd.i <= Len(vd.testcases)
    /\ LET i == vd.i
           tc == [vd.testcases[i] EXCEPT !.status = "judging"]
       IN  IF vd.will_skip
           THEN vd' = [vd EXCEPT !.testcases[i] = [tc EXCEPT !.score = 0,
                                                             !.status = "skipped"],
                                 !.i = i + 1]
           ELSE IF vd.submit_answer
           THEN \E cmp \in CompareOutcomes(tc.full_score) :
                  vd' = [vd EXCEPT !.testcases[i] =
                                       HandleSubmitAnswer(tc, i \in DOMAIN vd.answer_files,
                                                          cmp),
                                   !.compared = @ \cup {i},
                                   !.cmp_err = IF cmp.ok THEN @ ELSE @ \cup {i},
                                   !.i = i + 1]
           ELSE \E r \in RunResults(vd.subtask) :
                \E out_too_large \in IF ReachesCompare(vd.subtask, r)
                                     THEN BOOLEAN ELSE {FALSE} :
                \E cmp \in IF ReachesCompare(vd.subtask, r) /\ ~out_too_large
                           THEN CompareOutcomes(tc.full_score)
                           ELSE {[ok |-> TRUE, score |-> 0]} :
                  LET h == HandleTraditional(tc, vd.subtask, r, out_too_large, cmp,
                                             vd.will_skip)
                  IN  vd' = [vd EXCEPT
                               !.testcases[i] = h.tc,
                               !.will_skip = h.will_skip,
                               !.compared = IF h.compared THEN @ \cup {i} ELSE @,
                               !.cmp_err = IF h.compared /\ ~cmp.ok THEN @ \cup {i} ELSE @,
                               !.runs[i] = [ran |-> TRUE, r |-> r,
                                            out_too_large |-> out_too_large,
                                            cmp |-> cmp],
                               !.i = i + 1]
    /\ UNCHANGED <<baseVars, ct, dk, sj, rp, hd, fnVars>>

\* after the loop: the subtask's score and status, and the report to the
\* dependency graph (here a graph of this one subtask)
VerdictAggregate ==
    /\ vd.i > Len(vd.testcases)
    /\ vd.status = "waiting"
    /\ LET res == [score |-> vd.score, status |-> vd.status, testcases |-> vd.testcases]
           score == AggregateScore(vd.subtask, res)
       IN  vd' = [vd EXCEPT !.score = score,
                            !.status = SubtaskStatus(vd.subtask, score),
                            !.dg = DGReport(vd.dg, score = vd.subtask.score)]
    /\ UNCHANGED <<baseVars, ct, dk, sj, rp, hd, fnVars>>

NextVerdict == VerdictStep \/ VerdictAggregate

SpecVerdict == InitVerdict /\ [][NextVerdict]_vars

\* C15: comparator error handling. In both modes, a testcase for which the
\* comparator returned an error is recorded judge_failed with score 0.
ComparatorErrorIsJudgeFailed ==
    \A i \in vd.cmp_err :
        vd.testcases[i].status = "judge_failed" /\ vd.testcases[i].score = 0

\* C34: submit-answer missing file. In submit-answer mode a testcase whose
\* output name has no entry in the user's archive is recorded wrong_answer
\* with score 0 (message "Missing file: <name>"), and the comparator is not
\* run for it.
MissingFileIsWrongAnswer ==
    \A i \in 1..MaxCases :
        (vd.submit_answer /\ i \notin vd.archive /\ i < vd.i) =>
            /\ vd.testcases[i].status = "wrong_answer"
            /\ vd.testcases[i].score = 0
            /\ i \notin vd.compared

\* C26: verdict precedence in traditional mode. The status of an executed
\* testcase is the first matching of: memory_cost / 1 MiB >= memory_limit,
\* memory_limit_exceed; time_cost >= scaled_time * 1000 us,
\* time_limit_exceed; exit_code /= 0, runtime_error; output file larger
\* than output_file_size_limit, output_size_limit_exceed; otherwise what
\* the comparator's score gives. The comparator is called exactly when
\* none of the four conditions holds.
VerdictPrecedence ==
    \A i \in 1..MaxCases :
        vd.runs[i].ran =>
            LET r == vd.runs[i].r
                over_memory == r.memory_cost \div (1024 * 1024) >= vd.subtask.memory_limit
                over_time == r.time_cost
                                >= ScaledTime(vd.subtask.time_limit, DefaultTimeScale) * 1000
                crashed == r.exit_code /= 0
                too_large == vd.runs[i].out_too_large
                score == IF vd.runs[i].cmp.ok THEN vd.runs[i].cmp.score ELSE 0
                full_score == vd.testcases[i].full_score
            IN  /\ over_memory => vd.testcases[i].status = "memory_limit_exceed"
                /\ (~over_memory /\ over_time) =>
                      vd.testcases[i].status = "time_limit_exceed"
                /\ (~over_memory /\ ~over_time /\ crashed) =>
                      vd.testcases[i].status = "runtime_error"
                /\ (~over_memory /\ ~over_time /\ ~crashed /\ too_large) =>
                      vd.testcases[i].status = "output_size_limit_exceed"
                /\ (~over_memory /\ ~over_time /\ ~crashed /\ ~too_large) =>
                      vd.testcases[i].status =
                          IF score < full_score THEN "wrong_answer"
                          ELSE IF score = full_score THEN "accepted"
                          ELSE "unaccepted"
                /\ i \in vd.compared
                      <=> (~over_memory /\ ~over_time /\ ~crashed /\ ~too_large)

\* C26 witness: a testcase over memory, over time and with a non-zero exit
\* code recorded memory_limit_exceed without the comparator, followed by a
\* testcase the comparator decided
VerdictPrecedenceWitness ==
    /\ ~vd.submit_answer
    /\ vd.i > MaxCases
    /\ vd.runs[1].ran
    /\ vd.runs[1].r.memory_cost \div (1024 * 1024) >= vd.subtask.memory_limit
    /\ vd.runs[1].r.time_cost > 0
    /\ vd.runs[1].r.exit_code /= 0
    /\ vd.testcases[1].status = "memory_limit_exceed"
    /\ 1 \notin vd.compared
    /\ MaxCases \in vd.compared
    /\ vd.testcases[MaxCases].status = "accepted"

\* C27: subtask status and scheduler report agree. Once a subtask's
\* testcases are done, its status is accepted if and only if its aggregated
\* score equals the configured score, unaccepted otherwise, and the
\* dependency graph was told ok = true (the node is dropped) exactly when
\* the status is accepted; for every method, testcase scores and
\* configured score.
StatusAgreesWithReport ==
    vd.status /= "waiting" =>
        /\ vd.score = vd.subtask.score <=> vd.status = "accepted"
        /\ vd.score /= vd.subtask.score <=> vd.status = "unaccepted"
        /\ vd.dg.heap = <<>>
        /\ vd.dg.dropped[1] <=> vd.status = "accepted"

\* C27 witness: a sum subtask whose testcases add up to more than the
\* configured score: unaccepted, reported as failed
StatusAgreesWithReportWitness ==
    /\ vd.subtask.method = "sum"
    /\ vd.score > vd.subtask.score
    /\ vd.status = "unaccepted"
    /\ vd.dg.heap = <<>>
    /\ ~vd.dg.dropped[1]

(***************************************************************************)
(* The special judge (SpecSpj): SpecialJudgeComparator::my_compare         *)
(* (core/compare/special.rs) called several times on the comparator's one  *)
(* working_dir.  A file is [kind, v]: absent, an integer text, or a text   *)
(* that is no integer; a message file's v is the number of the comparison  *)
(* that wrote it.                                                          *)
(***************************************************************************)
AbsentFile == [kind |-> "absent", v |-> 0]
JunkFile == [kind |-> "junk", v |-> 0]
IntFile(n) == [kind |-> "int", v |-> n]

\* what an SPJ run may do: fail in the sandbox, its exit code, the score
\* file it writes (if any), the message file it writes: none, a text, or
\* bytes that are not UTF-8
SpjBehaviours ==
    [sandbox_err : BOOLEAN, exit_code : {0, 1},
     score : {AbsentFile, JunkFile} \cup {IntFile(n) : n \in {0, 50, 100, 101}},
     message : {"none", "text", "junk"}]

\* working_dir after the SPJ ran in comparison number k: the files it wrote
\* replace the old ones, every other file stays
SpjRun(dir, spj, k) ==
    IF spj.sandbox_err THEN dir
    ELSE [score |-> IF spj.score.kind = "absent" THEN dir.score ELSE spj.score,
          message |-> IF spj.message = "text" THEN IntFile(k)
                      ELSE IF spj.message = "junk" THEN JunkFile
                      ELSE dir.message]

\* (score as f64 / 100.0 * (full_score as f64)).floor() as i64
SpjScaledScore(score, full_score) ==
    F64Floor(F64MulInt(F64Div(score, 100), full_score))

\* variant: the exit code of the SPJ is not looked at
MyCompareIgnoringExit(dir, spj, full_score) ==
    IF spj.sandbox_err THEN [ok |-> FALSE, score |-> 0, message |-> <<"run failed", 0>>]
    ELSE IF dir.message.kind = "junk"
    THEN [ok |-> FALSE, score |-> 0, message |-> <<"Failed to read message file", 0>>]
    ELSE LET message == IF dir.message.kind = "absent" THEN 0 ELSE dir.message.v
         IN  IF dir.score.kind = "absent"
             THEN [ok |-> TRUE, score |-> 0, message |-> <<"no score file", 0>>]
             ELSE IF dir.score.kind = "junk"
             THEN [ok |-> FALSE, score |-> 0, message |-> <<"Failed to parse score", 0>>]
             ELSE IF ~(dir.score.v \in 0..100)
             THEN [ok |-> FALSE, score |-> 0, message |-> <<"Invalid score", 0>>]
             ELSE [ok |-> TRUE, score |-> SpjScaledScore(dir.score.v, full_score),
                   message |-> <<"", message>>]

\* my_compare from the ExecuteResult on, reading working_dir `dir`
MyCompare(dir, spj, full_score) ==
    IF spj.sandbox_err THEN [ok |-> FALSE, score |-> 0, message |-> <<"run failed", 0>>]
    ELSE IF dir.message.kind = "junk"
    THEN [ok |-> FALSE, score |-> 0, message |-> <<"Failed to read message file", 0>>]
    ELSE LET message == IF dir.message.kind = "absent" THEN 0 ELSE dir.message.v
         IN  IF spj.exit_code /= 0
             THEN [ok |-> TRUE, score |-> 0, message |-> <<"SPJ exited", message>>]
             ELSE IF dir.score.kind = "absent"
             THEN [ok |-> TRUE, score |-> 0, message |-> <<"no score file", 0>>]
             ELSE IF dir.score.kind = "junk"
             THEN [ok |-> FALSE, score |-> 0, message |-> <<"Failed to parse score", 0>>]
             ELSE IF ~(dir.score.v \in 0..100)
             THEN [ok |-> FALSE, score |-> 0, message |-> <<"Invalid score", 0>>]
             ELSE [ok |-> TRUE, score |-> SpjScaledScore(dir.score.v, full_score),
                   message |-> <<"", message>>]

EmptyDir == [score |-> AbsentFile, message |-> AbsentFile]

InitSpj ==
    /\ sj \in {[dir |-> EmptyDir, n |-> 0, full_score |-> f, spj |-> 0,
                last |-> 0, fresh |-> 0] : f \in 0..FullScore}
    /\ BaseIdle("spj")
    /\ ct = 0 /\ dk = 0 /\ vd = 0 /\ rp = 0 /\ hd = 0 /\ FnIdle

\* one call of compare: the inputs written, the SPJ run, the files read.
\* `fresh` is what the same call returns in a working_dir without files of
\* earlier comparisons.
SpjCompare ==
    /\ sj.n < MaxCompares
    /\ \E spj \in SpjBehaviours :
          LET k == sj.n + 1
              after == SpjRun(sj.dir, spj, k)
          IN  sj' = [sj EXCEPT !.dir = after, !.n = k, !.spj = spj,
                               !.last = MyCompare(after, spj, sj.full_score),
                               !.fresh = MyCompare(SpjRun(EmptyDir, spj, k), spj,
                                                   sj.full_score)]
    /\ UNCHANGED <<baseVars, ct, dk, vd, rp, hd, fnVars>>

NextSpj == SpjCompare

SpecSpj == InitSpj /\ [][NextSpj]_vars

\* C16: comparators are stateless across comparisons. The result of a
\* comparison is what the same SPJ run gives in a directory holding no file
\* of an earlier comparison; so an SPJ that exits 0 without writing a score
\* file gives score 0 with the no-score-file message.
SpjStateless ==
    sj.n >= 1 =>
        /\ sj.last = sj.fresh
        /\ (~sj.spj.sandbox_err /\ sj.spj.exit_code = 0 /\ sj.spj.score.kind = "absent")
              => (sj.last.score = 0 /\ sj.last.message[1] = "no score file")

RawScores == 0..100

InitScale ==
    /\ sc \in [score : RawScores, full_score : 0..MaxSpjFullScore,
                phase : {"start"}, result : {0}]
    /\ BaseIdle("scale")
    /\ TaskIdle /\ lc = 0 /\ gr = 0 /\ LateIdle

\* one call of compare on a working directory holding the score file only
SpjScale ==
    /\ sc.phase = "start"
    /\ LET spj == [sandbox_err |-> FALSE, exit_code |-> 0,
                   score |-> IntFile(sc.score), message |-> "none"]
       IN  sc' = [sc EXCEPT !.phase = "done",
                            !.result = MyCompare(SpjRun(EmptyDir, spj, 1), spj,
                                                 sc.full_score)]
    /\ UNCHANGED <<baseVars, taskVars, lc, gr, lateVars>>

NextScale == SpjScale

SpecScale == InitScale /\ [][NextScale]_vars

\* C22: SPJ score scaling. For every raw score R in 0..100 and every full
\* score, the score the special-judge comparator returns is the exact
\* integer floor(R * full_score / 100).
SpjScalingExact ==
    sc.phase = "done" =>
        /\ sc.result.ok
        /\ sc.result.score = (sc.score * sc.full_score) \div 100

(***************************************************************************)
(* One scaled time limit (SpecTime): the time_scale of handle              *)
(* (task/local/executor.rs) and the scaled_time of handle_traditional      *)
(* (task/local/traditional.rs) for a subtask's time_limit.                 *)
(***************************************************************************)
\* ExtraJudgeConfig.time_scale: None, or Some(v) with v in thousandths
TimeScales ==
    {[some |-> FALSE, v |-> 0]} \cup
    {[some |-> TRUE, v |-> v] : v \in TimeScaleValues}

\* extra_config.time_scale.unwrap_or(1.02)
TimeScaleOf(time_scale) == IF time_scale.some THEN time_scale.v ELSE DefaultTimeScale

InitTime ==
    /\ tm \in [time_limit : 1..MaxTimeLimit, time_scale : TimeScales,
                phase : {"start"}, scaled_time : {0}]
    /\ BaseIdle("time")
    /\ EarlyIdle /\ lg = 0 /\ cs = 0

\* handle reads the time scale, handle_traditional scales the time limit
ScaleTime ==
    /\ tm.phase = "start"
    /\ tm' = [tm EXCEPT !.phase = "done",
                        !.scaled_time = ScaledTime(tm.time_limit,
                                                   TimeScaleOf(tm.time_scale))]
    /\ UNCHANGED <<baseVars, earlyVars, lg, cs>>

NextTime == ScaleTime

SpecTime == InitTime /\ [][NextTime]_vars

\* C33: scaled time limit. For every time_limit and every time_scale (1.02
\* when the submission gives none) the time cap of a testcase is
\* ceil(time_limit * time_scale) milliseconds, rounded up and never down.
ScaledTimeIsCeiling ==
    tm.phase = "done" =>
        tm.scaled_time =
            (tm.time_limit * TimeScaleOf(tm.time_scale) + 999) \div 1000

(***************************************************************************)
(* One remote submission tracked on Luogu (SpecRemote): the polling loop   *)
(* of handle_luogu_remote_judge (task/remote/luogu/mod.rs) and             *)
(* update_hj2_judge_status (task/remote/luogu/model.rs), the remote record *)
(* moving forward between two polls.                                       *)
(***************************************************************************)
\* LuoguJudgeStatus, by its to_hj2_status name: the two unfinished ones and
\* two final ones
LuoguStatuses == {"waiting", "judging", "accepted", "wrong_answer"}

\* LuoguJudgeRecord: compile is None, success or failure; judge is None or
\* a result with a status
LuoguRecords == [compile : {"none", "ok", "failed"}, judge : {"none"} \cup LuoguStatuses]

\* the records the remote judge may show at the next poll
RemoteAfter(data) ==
    {d \in LuoguRecords :
        /\ data.compile /= "none" => d.compile = data.compile
        /\ d.compile /= "ok" => d.judge = "none"
        /\ data.judge = "waiting" => d.judge /= "none"
        /\ data.judge = "judging" => d.judge \notin {"none", "waiting"}
        /\ data.judge \in {"accepted", "wrong_answer"} => d.judge = data.judge}

\* update_hj2_judge_status: what it returns and the extra status it publishes
UpdateHj2JudgeStatus(data) ==
    IF data.judge /= "none"
    THEN LET should_continue == data.judge \in {"judging", "waiting"}
         IN  [continue |-> should_continue,
              extra_status |-> IF should_continue THEN data.judge ELSE "none"]
    ELSE IF data.compile = "ok" THEN [continue |-> FALSE, extra_status |-> "judging"]
    ELSE IF data.compile = "failed"
    THEN [continue |-> TRUE, extra_status |-> "compile_error"]
    ELSE [continue |-> FALSE, extra_status |-> "waiting"]

\* after the submission was accepted by Luogu and "judging" was published
InitRemote ==
    /\ lg \in {[delays |-> n, round |-> 0, phase |-> "polling",
                data |-> [compile |-> "none", judge |-> "none"],
                polled |-> FALSE, last |-> [compile |-> "none", judge |-> "none"],
                ret |-> FALSE, timed_out |-> TRUE, extra_status |-> "judging",
                result |-> "none"] : n \in 0..MaxDelays}
    /\ BaseIdle("remote")
    /\ EarlyIdle /\ tm = 0 /\ cs = 0

\* one iteration of the loop over luogu_delay_sequence: the query, the
\* response decoded and handed to update_hj2_judge_status, the sleep
LuoguPoll ==
    /\ lg.phase = "polling"
    /\ lg.round < lg.delays
    /\ \E d \in RemoteAfter(lg.data), http \in {"200", "2xx", "bad"} :
          IF http = "bad"
          THEN lg' = [lg EXCEPT !.data = d, !.phase = "done", !.result = "err",
                                !.extra_status = "none"]
          ELSE IF http = "2xx"
          THEN lg' = [lg EXCEPT !.data = d, !.round = @ + 1]
          ELSE LET u == UpdateHj2JudgeStatus(d)
               IN  IF ~u.continue
                   THEN lg' = [lg EXCEPT !.data = d, !.polled = TRUE, !.last = d,
                                         !.ret = u.continue,
                                         !.extra_status = u.extra_status,
                                         !.timed_out = FALSE, !.phase = "left"]
                   ELSE lg' = [lg EXCEPT !.data = d, !.polled = TRUE, !.last = d,
                                         !.ret = u.continue,
                                         !.extra_status = u.extra_status,
                                         !.round = @ + 1]
    /\ UNCHANGED <<baseVars, earlyVars, tm, cs>>

\* after the loop: "unaccepted" published when the loop was not left early
LuoguFinish ==
    /\ \/ lg.phase = "polling" /\ lg.round = lg.delays
       \/ lg.phase = "left"
    /\ lg' = [lg EXCEPT !.phase = "done", !.result = "ok",
                        !.extra_status = IF lg.timed_out THEN "unaccepted" ELSE @]
    /\ UNCHANGED <<baseVars, earlyVars, tm, cs>>

NextRemote == LuoguPoll \/ LuoguFinish

SpecRemote == InitRemote /\ [][NextRemote]_vars

\* the remote record is final: compile failed, or a final judge status
RecordFinal(data) ==
    IF data.judge /= "none" THEN data.judge \notin {"waiting", "judging"}
    ELSE data.compile = "failed"

\* C36: remote tracking stop condition. update_hj2_judge_status returns
\* true exactly when the remote record is not yet final and false exactly
\* when it is final, so the polling loop is left early only on a final
\* record and otherwise goes on until the delay sequence is used up.
RemoteStopCondition ==
    /\ lg.polled => (lg.ret <=> ~RecordFinal(lg.last))
    /\ (lg.phase \in {"left", "done"} /\ lg.result /= "err") =>
          IF lg.timed_out THEN lg.round = lg.delays ELSE RecordFinal(lg.last)

(***************************************************************************)
(* Two tasks syncing one problem directory (SpecMirror):                   *)
(* sync_problem_files (task/local/util.rs) called by two local tasks for   *)
(* the same problem, the server's file list changing between their two     *)
(* file-list requests.                                                     *)
(***************************************************************************)
Syncers == {1, 2}

\* the file lists of the server before and after the change: lists over the
\* names a and b, all files modified at the same time
MirrorLists ==
    {l \in ServerLists :
        \A i \in 1..Len(l) : l[i].name[2] = 0 /\ l[i].last_modified_time = 1}

\* the names of a file list
ListNames(files) == {files[i].name : i \in 1..Len(files)}

\* the loop `for file in files.into_iter()` from file k on, every download
\* succeeding at clock `now`
RECURSIVE SyncFiles(_, _, _, _)
SyncFiles(dir, files, k, now) ==
    IF k > Len(files) THEN dir
    ELSE SyncFiles(IF ShouldDownload(dir, files[k])
                   THEN Downloaded(dir, files[k], now) ELSE dir,
                   files, k + 1, now)

\* the directories earlier syncs leave: a data file with a sidecar holding a
\* timestamp, or neither
MirrorDirs ==
    {c \in DirChoices :
        \A b \in DOMAIN c : IF c[b].data THEN c[b].lock \in {"old", "new"}
                             ELSE c[b].lock = "none"}

InitMirror ==
    /\ cs \in {[dir |-> DirOf(c), old |-> l1, new |-> l2, server |-> "old",
                phase |-> [t \in Syncers |-> "start"],
                files |-> [t \in Syncers |-> <<>>],
                listed |-> [t \in Syncers |-> "none"],
                mutex |-> 0, order |-> <<>>] :
                    c \in MirrorDirs, l1 \in MirrorLists, l2 \in MirrorLists}
    /\ ListNames(cs.old) /= ListNames(cs.new)
    /\ BaseIdle("mirror")
    /\ EarlyIdle /\ tm = 0 /\ lg = 0

\* the file list requested from the web API and parsed
MirrorList ==
    /\ \E t \in Syncers :
          /\ cs.phase[t] = "start"
          /\ cs' = [cs EXCEPT !.phase[t] = "listed",
                              !.files[t] = IF cs.server = "old" THEN cs.old ELSE cs.new,
                              !.listed[t] = cs.server]
    /\ UNCHANGED <<baseVars, earlyVars, tm, lg>>

\* the problem's files are changed on the server after the first task got
\* its list and before the second asks for it
MirrorServerChange ==
    /\ cs.server = "old"
    /\ \E t \in Syncers : cs.phase[t] /= "start"
    /\ \E t \in Syncers : cs.phase[t] = "start"
    /\ cs' = [cs EXCEPT !.server = "new"]
    /\ UNCHANGED <<baseVars, earlyVars, tm, lg>>

\* the problem's mutex taken from file_dir_locks and locked
MirrorAcquire ==
    /\ \E t \in Syncers :
          /\ cs.phase[t] = "listed"
          /\ cs.mutex = 0
          /\ cs' = [cs EXCEPT !.phase[t] = "syncing", !.mutex = t,
                              !.order = Append(@, t)]
    /\ UNCHANGED <<baseVars, earlyVars, tm, lg>>

\* under the mutex: the removal loop over the directory, then the loop over
\* the task's file list; Ok(()) and the guard dropped, or an error from a
\* download or a write with the guard dropped as well
MirrorSync ==
    /\ \E t \in Syncers :
          /\ cs.phase[t] = "syncing"
          /\ LET cleaned == CleanedDir(cs.dir, cs.files[t])
             IN  \/ cs' = [cs EXCEPT !.dir = SyncFiles(cleaned, cs.files[t], 1, MaxClock),
                                     !.phase[t] = "returned", !.mutex = 0]
                 \/ /\ \E k \in 1..Len(cs.files[t]) : ShouldDownload(cleaned, cs.files[t][k])
                    /\ cs' = [cs EXCEPT !.dir = cleaned, !.phase[t] = "failed",
                                        !.mutex = 0]
    /\ UNCHANGED <<baseVars, earlyVars, tm, lg>>

NextMirror == MirrorList \/ MirrorServerChange \/ MirrorAcquire \/ MirrorSync

SpecMirror == InitMirror /\ [][NextMirror]_vars

\* C37: faithful mirror under concurrent syncs. When two tasks sync the same
\* problem and the server's file list changed between their two file-list
\* requests, then after both syncs have completed the regular files of the
\* problem directory are exactly the files of the newer list, whichever
\* task locked the problem first.
MirrorsNewerList ==
    (/\ \A t \in Syncers : cs.phase[t] = "returned"
     /\ \E t \in Syncers : cs.listed[t] = "old"
     /\ \E t \in Syncers : cs.listed[t] = "new") =>
        {f \in DOMAIN cs.dir : ~EndsWithLock(f)} = ListNames(cs.new)

(***************************************************************************)
(* One call of the line comparator (SpecLines): core/compare/simple.rs     *)
(* `compare` on a user output and an answer, and again after blank lines   *)
(* were appended to either side. A byte string is a sequence of byte       *)
(* values.                                                                 *)
(***************************************************************************)
LineFeed == 10
Space == 32
LetterA == 97
\* a byte that occurs in no UTF-8 encoding
InvalidByte == 255

ByteAlphabet == {LineFeed, Space, LetterA, InvalidByte}
ByteStrings == SeqsUpTo(ByteAlphabet, MaxLineBytes)

\* String::from_utf8 succeeds; on ByteAlphabet, exactly when InvalidByte
\* does not occur
FromUtf8Ok(bytes) == \A i \in 1..Len(bytes) : bytes[i] < 128

\* char::is_whitespace on the ASCII range
IsWhitespace(b) == b \in {9, 10, 11, 12, 13, 32}

\* str::split("\n"): the pieces between line feeds, one more than the
\* number of line feeds
RECURSIVE SplitLines(_, _)
SplitLines(t, piece) ==
    IF t = <<>> THEN <<piece>>
    ELSE IF Head(t) = LineFeed THEN <<piece>> \o SplitLines(Tail(t), <<>>)
    ELSE SplitLines(Tail(t), Append(piece, Head(t)))

\* str::trim_end
RECURSIVE TrimEnd(_)
TrimEnd(line) ==
    IF line /= <<>> /\ IsWhitespace(line[Len(line)])
    THEN TrimEnd(SubSeq(line, 1, Len(line) - 1))
    ELSE line

\* while !lines.is_empty() && lines.last().unwrap().trim_end() == "" { pop }
RECURSIVE PopBlankLines(_)
PopBlankLines(lines) ==
    IF lines /= <<>> /\ TrimEnd(lines[Len(lines)]) = <<>>
    THEN PopBlankLines(SubSeq(lines, 1, Len(lines) - 1))
    ELSE lines

\* fn compare(user_out, answer, full_score)
CompareLines(user_out, answer, full_score) ==
    IF ~FromUtf8Ok(user_out) \/ ~FromUtf8Ok(answer)
    THEN [ok |-> FALSE, score |-> 0, message |-> "Failed to decode chars"]
    ELSE LET user_lines == PopBlankLines(SplitLines(user_out, <<>>))
             answer_lines == PopBlankLines(SplitLines(answer, <<>>))
         IN  IF Len(user_lines) /= Len(answer_lines)
             THEN [ok |-> TRUE, score |-> 0, message |-> "Expected lines"]
             ELSE IF \E i \in 1..Len(user_lines) :
                        TrimEnd(user_lines[i]) /= TrimEnd(answer_lines[i])
             THEN [ok |-> TRUE, score |-> 0, message |-> "Different at line"]
             ELSE [ok |-> TRUE, score |-> full_score, message |-> "OK!"]

\* trailing blank lines that may be appended to a side: none, an empty
\* line, a whitespace-only line, two empty lines
BlankTails == {<<>>, <<LineFeed>>, <<LineFeed, Space>>, <<LineFeed, LineFeed>>}

InitLines ==
    /\ lc \in [user_out : ByteStrings, answer : ByteStrings,
                full_score : 0..FullScore, phase : {"start"},
                user_tail : {<<>>}, answer_tail : {<<>>},
                result : {0}, padded : {0}]
    /\ BaseIdle("lines")
    /\ TaskIdle /\ sc = 0 /\ gr = 0 /\ LateIdle

\* the comparator called on the two byte strings, and on the same strings
\* with trailing blank lines appended
LineCompare ==
    /\ lc.phase = "start"
    /\ \E ut \in BlankTails, at \in BlankTails :
          lc' = [lc EXCEPT !.phase = "done", !.user_tail = ut, !.answer_tail = at,
                           !.result = CompareLines(lc.user_out, lc.answer, lc.full_score),
                           !.padded = CompareLines(lc.user_out \o ut, lc.answer \o at,
                                                   lc.full_score)]
    /\ UNCHANGED <<baseVars, taskVars, sc, gr, lateVars>>

NextLines == LineCompare

SpecLines == InitLines /\ [][NextLines]_vars

\* C23: line comparator symmetry. Comparing a byte string against itself
\* yields the full score, whatever the byte string and the full score; and
\* trailing blank lines appended to either side do not change the score.
LineCompareSymmetric ==
    lc.phase = "done" =>
        /\ lc.user_out = lc.answer =>
              (lc.result.ok /\ lc.result.score = lc.full_score)
        /\ lc.padded.ok = lc.result.ok
        /\ lc.padded.score = lc.result.score

(***************************************************************************)
(* The dependency graph driven through its interface (SpecGraph):          *)
(* DependencyGraph::new, then next and report as the schedule loop of      *)
(* handle calls them (next may be called again before the report), then    *)
(* get_skipped_subtasks once next has returned None                        *)
(* (task/local/dependency.rs). The caller's own record of what it reported *)
(* is kept beside the graph.                                               *)
(***************************************************************************)
InitGraph ==
    /\ gr \in {[deps |-> d, g |-> DGNew(d, o), phase |-> "loop", last |-> 0,
                 peeks |-> 0, reported |-> {}, oks |-> {}, skipped |-> <<>>] :
                     d \in DepMappings(Len(SchedNames)),
                     o \in Perms(Len(SchedNames))}
    /\ BaseIdle("graph")
    /\ TaskIdle /\ sc = 0 /\ lc = 0 /\ LateIdle

\* a call of next; None ends the schedule loop
GraphNext ==
    /\ gr.phase = "loop"
    /\ gr.peeks < MaxPeeks
    /\ LET n == DGNext(gr.g)
       IN  gr' = [gr EXCEPT !.last = n,
                            !.peeks = IF n = 0 THEN 0 ELSE gr.peeks + 1,
                            !.phase = IF n = 0 THEN "ended" ELSE "loop"]
    /\ UNCHANGED <<baseVars, taskVars, sc, lc, lateVars>>

\* report(ok) for the node next returned
GraphReport ==
    /\ gr.phase = "loop"
    /\ gr.peeks >= 1
    /\ \E ok \in BOOLEAN :
          gr' = [gr EXCEPT !.g = DGReport(gr.g, ok),
                           !.reported = gr.reported \cup {gr.last},
                           !.oks = IF ok THEN gr.oks \cup {gr.last} ELSE gr.oks,
                           !.peeks = 0]
    /\ UNCHANGED <<baseVars, taskVars, sc, lc, lateVars>>

\* get_skipped_subtasks after the loop
GraphSkipped ==
    /\ gr.phase = "ended"
    /\ gr' = [gr EXCEPT !.skipped = DGSkipped(gr.g), !.phase = "listed"]
    /\ UNCHANGED <<baseVars, taskVars, sc, lc, lateVars>>

NextGraph == GraphNext \/ GraphReport \/ GraphSkipped

SpecGraph == InitGraph /\ [][NextGraph]_vars

\* the nodes whose dependencies were all reported successful and that were
\* not reported themselves
GraphReady(x) ==
    {u \in SchedIdx :
        /\ u \notin x.reported
        /\ \A k \in 1..Len(x.deps[u]) : x.deps[u][k] \in x.oks}

\* C28: scheduler issue order. next returns the smallest-indexed node among
\* those whose dependencies have all been reported successful and that
\* have not been reported, None when there is none; a second next without
\* a report in between returns the same node; report removes exactly the
\* node next returned from the ready set.
IssueOrder ==
    /\ [](/\ SeqToSet(gr.g.heap) = GraphReady(gr)
           /\ DGNext(gr.g) = IF GraphReady(gr) = {} THEN 0
                             ELSE CHOOSE u \in GraphReady(gr) :
                                      \A w \in GraphReady(gr) : u <= w
           /\ gr.peeks >= 1 => gr.last = DGNext(gr.g))
    /\ [][gr'.peeks > 1 => (gr'.last = gr.last /\ gr'.g = gr.g)]_vars
    /\ [][gr'.reported /= gr.reported =>
            /\ gr.last \notin SeqToSet(gr'.g.heap)
            /\ SeqToSet(gr.g.heap) \ SeqToSet(gr'.g.heap) = {gr.last}]_vars

\* C28 witness: node 1 depends on node 3; next returned 2 twice, 2 was
\* reported, next returned 3, 3 was reported successful, and next returns 1
IssueOrderWitness ==
    /\ gr.deps = <<<<3>>, <<>>, <<>>>>
    /\ gr.reported = {2, 3}
    /\ 3 \in gr.oks
    /\ gr.peeks = MaxPeeks
    /\ gr.last = 1

\* C29 as stated: every node that was never dropped is in the list of
\* get_skipped_subtasks, with a reason naming its dependencies that were
\* not reported successful.
SkippedListsUndropped ==
    gr.phase = "listed" =>
        \A u \in SchedIdx :
            ~gr.g.dropped[u] =>
                \E k \in 1..Len(gr.skipped) :
                    /\ gr.skipped[k].idx = u
                    /\ gr.skipped[k].reason =
                          SelectSeq(gr.deps[u], LAMBDA v : v \notin gr.oks)

\* C29 amended: the list of get_skipped_subtasks holds, in ascending
\* order, exactly the nodes that were never issued; each of them has a
\* dependency that was not reported successful and its reason names
\* exactly those dependencies. A node that was issued and reported as
\* failed is not dropped and is not in the list.
SkippedListsNeverIssued ==
    gr.phase = "listed" =>
        /\ {gr.skipped[k].idx : k \in 1..Len(gr.skipped)} = SchedIdx \ gr.reported
        /\ \A k, k2 \in 1..Len(gr.skipped) :
              k < k2 => gr.skipped[k].idx < gr.skipped[k2].idx
        /\ \A k \in 1..Len(gr.skipped) :
              /\ gr.skipped[k].reason /= <<>>
              /\ gr.skipped[k].reason =
                    SelectSeq(gr.deps[gr.skipped[k].idx], LAMBDA v : v \notin gr.oks)
        /\ \A u \in gr.reported : gr.g.dropped[u] <=> u \in gr.oks

\* C29 witness: node 1 depends on 2 and 3; 2 was reported successful and 3
\* failed; the list holds node 1 alone, its reason naming 3
SkippedListsNeverIssuedWitness ==
    /\ gr.phase = "listed"
    /\ gr.deps = <<<<2, 3>>, <<>>, <<>>>>
    /\ gr.oks = {2}
    /\ gr.reported = {2, 3}
    /\ gr.skipped = <<[idx |-> 1, reason |-> <<3>>]>>

(***************************************************************************)
(* The reporter (SpecReport): one traditional submission of one subtask    *)
(* handled twice with the same compile result and the same testcase        *)
(* outcomes; in the first run any update_status call (task/local/util.rs)  *)
(* may fail, in the second every call succeeds.                            *)
(***************************************************************************)
\* how one update_status call may end: Ok, a transport error, a non-zero
\* server code, a response that does not parse
UpdateOutcomes == {"ok", "transport", "code", "unparsable"}

\* variant: a failed update aborts the handler
AfterUpdateAbortOnFailure(outcome) == IF outcome = "ok" THEN "continue" ELSE "abort"

\* what the caller of update_status does next: update_status returns ()
\* whatever happened, the error is only logged
AfterUpdate(outcome) == "continue"

\* the sandbox result and the comparator's answer of one testcase
ReportCaseOutcomes ==
    {[r |-> [oom |-> FALSE, memory_cost |-> 0, time_cost |-> 0, exit_code |-> 0],
      cmp |-> c] : c \in CompareOutcomes(FullScore)}
    \cup {[r |-> [oom |-> FALSE, memory_cost |-> 0, time_cost |-> 0, exit_code |-> 1],
           cmp |-> [ok |-> TRUE, score |-> 0]]}

ReportInputs ==
    [subtask : [method : Methods, score : {MaxSubtaskScore},
                memory_limit : {MemoryLimit}, time_limit : {TimeLimit},
                testcases : {[i \in 1..MaxCases |-> [full_score |-> FullScore]]}],
     compile_exit : {0, 1},
     cases : [1..MaxCases -> ReportCaseOutcomes]]

ReportRunStart ==
    [pc |-> "start", i |-> 0, tree |-> <<>>, will_skip |-> FALSE,
     executed |-> <<>>, ret |-> "none", failures |-> 0]

\* one stretch of `handle` from one status update to the next, the update
\* ending with `outcome`
ReportStep(run, in, outcome) ==
    LET failed == IF outcome = "ok" THEN run.failures ELSE run.failures + 1
        st == in.subtask
    IN  IF AfterUpdate(outcome) /= "continue"
        THEN [run EXCEPT !.pc = "done", !.ret = "err", !.failures = failed]
        ELSE IF run.pc = "start"
        THEN [run EXCEPT !.pc = "compile", !.failures = failed]
        ELSE IF run.pc = "compile"
        THEN IF in.compile_exit /= 0
             THEN [run EXCEPT !.pc = "done", !.ret = "ok", !.failures = failed]
             ELSE [run EXCEPT !.pc = "testcases", !.i = 1, !.failures = failed,
                              !.tree = FreshSubtaskResult(st)]
        ELSE IF run.pc = "testcases" /\ run.i <= Len(st.testcases)
        THEN LET tc == [run.tree.testcases[run.i] EXCEPT !.status = "judging"]
                 c == in.cases[run.i]
                 h == HandleTraditional(tc, st, c.r, FALSE, c.cmp, run.will_skip)
             IN  IF run.will_skip
                 THEN [run EXCEPT !.tree.testcases[run.i] =
                                      [tc EXCEPT !.score = 0, !.status = "skipped"],
                                  !.i = run.i + 1, !.failures = failed]
                 ELSE [run EXCEPT !.tree.testcases[run.i] = h.tc,
                                  !.will_skip = h.will_skip,
                                  !.executed = Append(run.executed, run.i),
                                  !.i = run.i + 1, !.failures = failed]
        ELSE LET score == AggregateScore(st, run.tree)
             IN  [run EXCEPT !.pc = "done", !.ret = "ok", !.failures = failed,
                             !.tree.score = score,
                             !.tree.status = SubtaskStatus(st, score)]

InitReport ==
    /\ rp \in {[in |-> x, r1 |-> ReportRunStart, r2 |-> ReportRunStart] :
                  x \in ReportInputs}
    /\ BaseIdle("report")
    /\ ct = 0 /\ dk = 0 /\ vd = 0 /\ sj = 0 /\ hd = 0 /\ FnIdle

\* the run whose reporter may fail
Run1Report ==
    /\ rp.r1.pc /= "done"
    /\ \E o \in UpdateOutcomes : rp' = [rp EXCEPT !.r1 = ReportStep(rp.r1, rp.in, o)]
    /\ UNCHANGED <<baseVars, ct, dk, vd, sj, hd, fnVars>>

\* the run whose every update succeeds
Run2Report ==
    /\ rp.r2.pc /= "done"
    /\ rp' = [rp EXCEPT !.r2 = ReportStep(rp.r2, rp.in, "ok")]
    /\ UNCHANGED <<baseVars, ct, dk, vd, sj, hd, fnVars>>

NextReport == Run1Report \/ Run2Report

SpecReport == InitReport /\ [][NextReport]_vars

\* C17: reporter failures never influence judging. Whatever updates failed
\* in the first run, once both runs have ended they executed the same
\* testcases in the same order, built the same result tree and returned the
\* same value; and at the same position the two runs are in the same state.
ReporterFailuresIgnored ==
    /\ (rp.r1.pc = "done" /\ rp.r2.pc = "done") =>
          /\ rp.r1.executed = rp.r2.executed
          /\ rp.r1.tree = rp.r2.tree
          /\ rp.r1.ret = rp.r2.ret
    /\ (rp.r1.pc = rp.r2.pc /\ rp.r1.i = rp.r2.i) =>
          [rp.r1 EXCEPT !.failures = 0] = rp.r2

\* C17 witness: both runs ended Ok after executing every testcase, and
\* more than two updates of the first run failed
ReporterFailuresIgnoredWitness ==
    /\ rp.r1.pc = "done" /\ rp.r2.pc = "done"
    /\ rp.r1.failures > 2
    /\ rp.r1.ret = "ok"
    /\ Len(rp.r1.executed) = MaxCases
    /\ rp.r1.tree = rp.r2.tree

(***************************************************************************)
(* One broker message (SpecHandler): local_judge_task_handler and the      *)
(* phases of handle (task/local/executor.rs), with every status update     *)
(* published for the submission kept in order.                             *)
(***************************************************************************)
\* submission_data as delivered: what its /id is, and whether the value
\* deserializes into SubmissionInfo
HandlerMessages ==
    {m \in [id : {"number", "string", "missing"}, decodable : BOOLEAN] :
        m.decodable => m.id = "number"}

\* the phases of handle after the decoding, in order
HandlePhases == <<"problem_data", "sync", "comparator", "language", "compile",
                  "init_tree", "testcase", "final">>

\* the status updates a phase publishes when it succeeds
PhaseUpdates(phase) ==
    IF phase \in {"sync", "language", "init_tree", "testcase", "final"}
    THEN <<"progress">> ELSE <<>>

PhaseAfter(phase) ==
    LET k == CHOOSE j \in 1..Len(HandlePhases) : HandlePhases[j] = phase
    IN  HandlePhases[k + 1]

InitHandler ==
    /\ hd \in {[msg |-> m, auto_sync_files |-> a, cases |-> n, phase |-> "queued",
                i |-> 0, err |-> "", updates |-> <<>>, ret |-> "none"] :
                    m \in HandlerMessages, a \in BOOLEAN, n \in 0..MaxCases}
    /\ BaseIdle("handler")
    /\ ct = 0 /\ dk = 0 /\ vd = 0 /\ sj = 0 /\ rp = 0 /\ FnIdle

\* the permit taken; sid = submission_data.pointer("/id").unwrap()
\* .as_i64().unwrap(): a panic unless /id is a number
HandlerReadId ==
    /\ hd.phase = "queued"
    /\ IF hd.msg.id = "number"
       THEN hd' = [hd EXCEPT !.phase = "decode"]
       ELSE hd' = [hd EXCEPT !.phase = "returned", !.ret = "panic"]
    /\ UNCHANGED <<baseVars, ct, dk, vd, sj, rp, fnVars>>

\* serde_json::from_value::<SubmissionInfo>
HandleDecode ==
    /\ hd.phase = "decode"
    /\ IF hd.msg.decodable
       THEN hd' = [hd EXCEPT !.phase = "problem_data"]
       ELSE hd' = [hd EXCEPT !.phase = "failed", !.err = "decode"]
    /\ UNCHANGED <<baseVars, ct, dk, vd, sj, rp, fnVars>>

\* a phase of handle other than the compilation: it succeeds and publishes
\* its updates, or one of its `?` returns an error
HandlePhase ==
    /\ hd.phase \in {"problem_data", "sync", "comparator", "language", "init_tree",
                     "testcase"}
    /\ \/ hd' = [hd EXCEPT !.phase = "failed", !.err = hd.phase]
       \/ IF hd.phase = "init_tree"
          THEN hd' = [hd EXCEPT !.updates = @ \o PhaseUpdates(hd.phase),
                                !.i = 1,
                                !.phase = IF hd.cases = 0 THEN "final" ELSE "testcase"]
          ELSE IF hd.phase = "testcase"
          THEN hd' = [hd EXCEPT !.updates = @ \o PhaseUpdates(hd.phase),
                                !.i = @ + 1,
                                !.phase = IF hd.i = hd.cases THEN "final" ELSE "testcase"]
          ELSE IF hd.phase = "problem_data" /\ ~hd.auto_sync_files
          THEN hd' = [hd EXCEPT !.phase = "comparator"]
          ELSE hd' = [hd EXCEPT !.updates = @ \o PhaseUpdates(hd.phase),
                                !.phase = PhaseAfter(hd.phase)]
    /\ UNCHANGED <<baseVars, ct, dk, vd, sj, rp, fnVars>>

\* compile_program: "Compiling your program..", then the compile_error
\* update and Ok(()) from handle, or "Compile successfully"; or an error
HandleCompile ==
    /\ hd.phase = "compile"
    /\ \/ hd' = [hd EXCEPT !.updates = @ \o <<"progress">>,
                           !.phase = "failed", !.err = "compile"]
       \/ hd' = [hd EXCEPT !.updates = @ \o <<"progress", "compile_error">>,
                           !.phase = "handled"]
       \/ hd' = [hd EXCEPT !.updates = @ \o <<"progress", "progress">>,
                           !.phase = "init_tree"]
    /\ UNCHANGED <<baseVars, ct, dk, vd, sj, rp, fnVars>>

\* the skipped subtasks marked, the last update, Ok(())
HandleFinal ==
    /\ hd.phase = "final"
    /\ hd' = [hd EXCEPT !.updates = @ \o PhaseUpdates("final"), !.phase = "handled"]
    /\ UNCHANGED <<baseVars, ct, dk, vd, sj, rp, fnVars>>

\* if let Err(e) = handle(..): update_status(&BTreeMap::new(), &err_str) and
\* Err(TaskError::UnexpectedError)
HandlerError ==
    /\ hd.phase = "failed"
    /\ hd' = [hd EXCEPT !.updates = @ \o <<"error">>, !.phase = "returned",
                        !.ret = "task_error"]
    /\ UNCHANGED <<baseVars, ct, dk, vd, sj, rp, fnVars>>

\* Ok(())
HandlerOk ==
    /\ hd.phase = "handled"
    /\ hd' = [hd EXCEPT !.phase = "returned", !.ret = "ok"]
    /\ UNCHANGED <<baseVars, ct, dk, vd, sj, rp, fnVars>>

NextHandler ==
    \/ HandlerReadId
    \/ HandleDecode
    \/ HandlePhase
    \/ HandleCompile
    \/ HandleFinal
    \/ HandlerError
    \/ HandlerOk

SpecHandler == InitHandler /\ [][NextHandler]_vars

\* the "error" updates among the updates published
ErrorUpdates(updates) == {k \in 1..Len(updates) : updates[k] = "error"}

\* C19: dispatcher failure path. Whenever handling the message failed, for
\* a message that cannot be decoded (a submission without a numeric id
\* included) or an error of handle at any phase, exactly one failing update
\* (error text, empty tree) was published and the task returned an error.
DispatcherFailurePath ==
    (hd.phase = "returned" /\ (hd.msg.id /= "number" \/ ~hd.msg.decodable \/ hd.err /= "")) =>
        /\ Cardinality(ErrorUpdates(hd.updates)) = 1
        /\ hd.ret = "task_error"

====
